---- MODULE Spec2Model ----
(***************************************************************************)
(* Model of the CVE score fetcher: the cache-backed enrichment engine      *)
(* (cve_lookup.py: lookup_cve, update_db, the NVD key file) and the CSV    *)
(* pipeline (cve_process.py: process_and_update_csv).                      *)
(*                                                                         *)
(* Conventions.  A Python value that may be None is a sequence of length   *)
(* at most one: None is <<>> and a present value v is <<v>>.  Scores are   *)
(* held in tenths (7.5 is 75).  The clock counts days.  A table of the     *)
(* SQLite file is a set of rows, each row a record that carries its key.   *)
(***************************************************************************)
EXTENDS Integers, Sequences, FiniteSets, TLC

\* ------------------------------------------------------------------------
\* Bounds of the model
\* ------------------------------------------------------------------------
\* the clock stops advancing once it has reached MaxTime
MaxTime == 20
\* days by which one Tick advances the clock, in Spec and in SpecRefresh
TickDays == 5
RefreshTickDays == 10

\* ------------------------------------------------------------------------
\* Program constants
\* ------------------------------------------------------------------------
CACHE_EXPIRY_DAYS == 15
\* 1.6 seconds, in tenths of a second
RATE_LIMIT_SLEEP == 16
EPSS_URL == "https://api.first.org/data/v1/epss"
NVD_URL == "https://services.nvd.nist.gov/rest/json/cves/2.0"

None == <<>>
Some(v) == <<v>>

\* A text that the program strips or lower-cases is a sequence of
\* one-character strings; "" is <<>>.
\* identifiers handed to lookup_cve
Ids == {<<"A">>, <<"B">>}

\* str.strip(): drop the white space at both ends
RECURSIVE LStrip(_)
LStrip(s) == IF s # <<>> /\ Head(s) = " " THEN LStrip(Tail(s)) ELSE s

RECURSIVE RStrip(_)
RStrip(s) ==
    IF s # <<>> /\ s[Len(s)] = " " THEN RStrip(SubSeq(s, 1, Len(s) - 1)) ELSE s

strip(s) == RStrip(LStrip(s))

\* ------------------------------------------------------------------------
\* Timestamps: datetime.now().isoformat() and datetime.fromisoformat()
\* ------------------------------------------------------------------------
\* the text written for the instant t
isoformat(t) == <<"iso", t>>

\* TRUE iff fromisoformat accepts the text
IsIsoText(s) == Len(s) = 2 /\ s[1] = "iso"

fromisoformat(s) == s[2]

\* the comparison turned round
is_cache_valid_inverted(date_str, clk) ==
    IF IsIsoText(date_str)
      THEN (clk - fromisoformat(date_str)) > CACHE_EXPIRY_DAYS
      ELSE FALSE

\* "<=" in place of "<"
is_cache_valid_inclusive(date_str, clk) ==
    IF IsIsoText(date_str)
      THEN (clk - fromisoformat(date_str)) <= CACHE_EXPIRY_DAYS
      ELSE FALSE

is_cache_valid(date_str, clk) ==
    IF IsIsoText(date_str)
      THEN (clk - fromisoformat(date_str)) < CACHE_EXPIRY_DAYS
      ELSE FALSE

\* ------------------------------------------------------------------------
\* SQLite tables
\* ------------------------------------------------------------------------
EmptyDb ==
    [epss_cache |-> {}, cvss_cache |-> {}, epss_detail |-> {}, cve_detail |-> {}]

\* SELECT ... WHERE cve_id=? followed by fetchone()
FetchOne(table, cve_id) ==
    LET found == {r \in table : r.cve_id = cve_id}
    IN IF found = {} THEN None ELSE Some(CHOOSE r \in found : TRUE)

\* INSERT INTO a table without a primary key: the old row stays
Replace_appending(table, row) == table \cup {row}

\* REPLACE INTO a table whose primary key is cve_id
Replace(table, row) ==
    {r \in table : r.cve_id # row.cve_id} \cup {row}

\* ------------------------------------------------------------------------
\* NVD key file
\* ------------------------------------------------------------------------
\* The file is None when it does not exist, else Some(content).  The content
\* is a sequence of bytes, each named by its role in base64 text: 0..63 is
\* the character of the base64 alphabet with that value, 64 is "=", 65 is a
\* byte that is neither in the alphabet nor white space, 66 is white space.
\* A file that open() refuses stands as the one symbol 67.
Pad == 64
ForeignByte == 65
WhiteSpace == 66
Unreadable == <<67>>

\* the characters of the keys of the model and their codes
KeyChars == <<"k", "e", "y", "s", " ">>
KeyBytes == <<107, 101, 121, 115, 32>>

\* str.encode("utf-8") and bytes.decode("utf-8") on these characters
encode(text) ==
    [i \in 1..Len(text) |->
        KeyBytes[CHOOSE j \in 1..Len(KeyChars) : KeyChars[j] = text[i]]]

\* TRUE iff decode("utf-8") accepts the bytes
IsUtf8(bytes) == \A i \in 1..Len(bytes) : bytes[i] < 128

decode(bytes) ==
    [i \in 1..Len(bytes) |->
        IF \E j \in 1..Len(KeyBytes) : KeyBytes[j] = bytes[i]
          THEN KeyChars[CHOOSE j \in 1..Len(KeyBytes) : KeyBytes[j] = bytes[i]]
          ELSE "?"]

\* base64.b64encode: three bytes give four characters, and "=" fills the
\* last group
RECURSIVE b64encode(_)
b64encode(bytes) ==
    IF Len(bytes) = 0
      THEN <<>>
      ELSE IF Len(bytes) = 1
        THEN <<bytes[1] \div 4, (bytes[1] % 4) * 16, Pad, Pad>>
        ELSE IF Len(bytes) = 2
          THEN <<bytes[1] \div 4,
                 (bytes[1] % 4) * 16 + bytes[2] \div 16,
                 (bytes[2] % 16) * 4, Pad>>
          ELSE <<bytes[1] \div 4,
                 (bytes[1] % 4) * 16 + bytes[2] \div 16,
                 (bytes[2] % 16) * 4 + bytes[3] \div 64,
                 bytes[3] % 64>>
               \o b64encode(SubSeq(bytes, 4, Len(bytes)))

\* bytes.strip(): drop the white space at both ends
RECURSIVE BytesLStrip(_)
BytesLStrip(s) == IF s # <<>> /\ Head(s) = WhiteSpace THEN BytesLStrip(Tail(s)) ELSE s

RECURSIVE BytesRStrip(_)
BytesRStrip(s) ==
    IF s # <<>> /\ s[Len(s)] = WhiteSpace
      THEN BytesRStrip(SubSeq(s, 1, Len(s) - 1)) ELSE s

BytesStrip(s) == BytesRStrip(BytesLStrip(s))

\* base64.b64decode without validate: the bytes outside the alphabet are
\* dropped; what is left is accepted when its characters before the "="
\* make whole groups of four, or a last group of two or three filled with
\* "=".  (The contents of the model have their "=" at the end.)
B64Data(content) == SelectSeq(content, LAMBDA c : c < Pad)
B64Pads(content) == Len(SelectSeq(content, LAMBDA c : c = Pad))

\* TRUE iff base64.b64decode accepts the content
IsB64(content) ==
    LET n == Len(B64Data(content))
    IN \/ n % 4 = 0
       \/ n % 4 = 2 /\ B64Pads(content) >= 2
       \/ n % 4 = 3 /\ B64Pads(content) >= 1

RECURSIVE B64Bytes(_)
B64Bytes(d) ==
    IF Len(d) < 2
      THEN <<>>
      ELSE IF Len(d) = 2
        THEN <<d[1] * 4 + d[2] \div 16>>
        ELSE IF Len(d) = 3
          THEN <<d[1] * 4 + d[2] \div 16, (d[2] % 16) * 16 + d[3] \div 4>>
          ELSE <<d[1] * 4 + d[2] \div 16,
                 (d[2] % 16) * 16 + d[3] \div 4,
                 (d[3] % 4) * 64 + d[4]>>
               \o B64Bytes(SubSeq(d, 5, Len(d)))

b64decode(content) == B64Bytes(B64Data(content))

\* the key is decoded whether or not the content is base64 text
get_nvd_api_key_unchecked(file) ==
    IF file = None
      THEN None
      ELSE Some(decode(b64decode(BytesStrip(file[1]))))

get_nvd_api_key(file) ==
    IF file = None
      THEN None
      ELSE IF file[1] = Unreadable
        THEN None
        ELSE LET encoded == BytesStrip(file[1])
             IN IF IsB64(encoded) /\ IsUtf8(b64decode(encoded))
                  THEN Some(decode(b64decode(encoded)))
                  ELSE None

\* "api_key is None" in place of "not api_key"
NoApiKey_none_only(api_key) == api_key = None

\* Python's "not api_key": None and "" are both false
NoApiKey(api_key) == api_key = None \/ api_key[1] = <<>>

\* ------------------------------------------------------------------------
\* Remote calls
\* ------------------------------------------------------------------------
\* time.sleep(RATE_LIMIT_SLEEP)
SleepCall ==
    [call |-> "sleep", url |-> "", cve_id |-> <<>>, apiKey |-> None,
     tenths |-> RATE_LIMIT_SLEEP]

\* requests.get(url, params, headers); apiKey is the header, None without one
GetCall(url, cve_id, apiKey) ==
    [call |-> "get", url |-> url, cve_id |-> cve_id, apiKey |-> apiKey,
     tenths |-> 0]

\* float() of the "epss" field of a record of the EPSS service
FloatTexts == {"0.0", "0.5"}
float(text) == IF text = "0.0" THEN 0 ELSE 5

\* An answer of the EPSS service: ok is FALSE when requests.get or r.json()
\* raises; has_data tells whether the JSON object has the key "data"; an
\* entry of data holds the text of its "epss" field, or None without one.
fetch_epss(cve_id, resp) ==
    LET calls == <<GetCall(EPSS_URL, cve_id, None)>>
    IN IF ~resp.ok
         THEN [epss |-> None, raw |-> None, calls |-> calls]
         ELSE IF ~resp.has_data \/ Len(resp.data) = 0
           THEN [epss |-> None, raw |-> None, calls |-> calls]
           ELSE LET entry == resp.data[1]
                IN IF entry.epss = None
                     THEN [epss |-> Some(0), raw |-> Some(resp), calls |-> calls]
                     ELSE IF entry.epss[1] \in FloatTexts
                       THEN [epss |-> Some(float(entry.epss[1])),
                             raw |-> Some(resp), calls |-> calls]
                       ELSE [epss |-> None, raw |-> Some(resp), calls |-> calls]

\* An answer of the NVD service: ok as above; has_vulns tells whether the
\* JSON object has the key "vulnerabilities"; the metrics of a record map
\* each scheme key to None (key absent) or Some(list of metric objects); a
\* metric object holds cvssData, None when the object is malformed.
AbsentCvss(calls) == [cvss |-> None, vector |-> None, raw |-> None, calls |-> calls]

\* m = metrics[key][0]; m["cvssData"]["baseScore"], ["vectorString"]
FirstMetric(list, resp, calls) ==
    IF Len(list) = 0 \/ list[1].cvssData = None
      THEN AbsentCvss(calls)
      ELSE [cvss |-> Some(list[1].cvssData[1].baseScore),
            vector |-> Some(list[1].cvssData[1].vectorString),
            raw |-> Some(resp), calls |-> calls]

\* the request goes out before the sleep
ThrottledGet_get_first(cve_id, headers) ==
    <<GetCall(NVD_URL, cve_id, headers), SleepCall>>

\* time.sleep(RATE_LIMIT_SLEEP), then requests.get(NVD_URL, ...)
ThrottledGet(cve_id, headers) ==
    <<SleepCall, GetCall(NVD_URL, cve_id, headers)>>

\* the chain of tests taken from the other end
SelectMetric_v2_first(metrics, resp, calls) ==
    IF metrics.cvssMetricV2 # None
      THEN FirstMetric(metrics.cvssMetricV2[1], resp, calls)
      ELSE IF metrics.cvssMetricV30 # None
        THEN FirstMetric(metrics.cvssMetricV30[1], resp, calls)
        ELSE IF metrics.cvssMetricV31 # None
          THEN FirstMetric(metrics.cvssMetricV31[1], resp, calls)
          ELSE [cvss |-> None, vector |-> None, raw |-> Some(resp), calls |-> calls]

\* the chain "if cvssMetricV31 ... elif cvssMetricV30 ... elif cvssMetricV2"
SelectMetric(metrics, resp, calls) ==
    IF metrics.cvssMetricV31 # None
      THEN FirstMetric(metrics.cvssMetricV31[1], resp, calls)
      ELSE IF metrics.cvssMetricV30 # None
        THEN FirstMetric(metrics.cvssMetricV30[1], resp, calls)
        ELSE IF metrics.cvssMetricV2 # None
          THEN FirstMetric(metrics.cvssMetricV2[1], resp, calls)
          ELSE [cvss |-> None, vector |-> None, raw |-> Some(resp), calls |-> calls]

fetch_cvss(cve_id, api_key, resp) ==
    LET headers == IF NoApiKey(api_key) THEN None ELSE api_key
        calls == ThrottledGet(cve_id, headers)
    IN IF ~resp.ok
         THEN AbsentCvss(calls)
         ELSE IF ~resp.has_vulns \/ Len(resp.vulns) = 0
           THEN AbsentCvss(calls)
           ELSE SelectMetric(resp.vulns[1].metrics, resp, calls)

\* ------------------------------------------------------------------------
\* lookup_cve
\* ------------------------------------------------------------------------
\* Python's truth value of a raw payload: None and {} are false
EpssKeys(resp) == IF resp.has_data THEN {"data"} ELSE {}
NvdKeys(resp) == IF resp.has_vulns THEN {"vulnerabilities"} ELSE {}
EpssTruthy(raw) == raw # None /\ EpssKeys(raw[1]) # {}
NvdTruthy(raw) == raw # None /\ NvdKeys(raw[1]) # {}

\* str(payload), the text kept in a detail table
PyStr(payload) == <<"str", payload>>

LogLine(tag, cve_id) == <<tag, cve_id>>

\* the row is used without a look at its date
ReadEpssCache_any_age(d, clk, cve_id) ==
    LET row == FetchOne(d.epss_cache, cve_id)
    IN IF row # None
         THEN [epss |-> row[1].epss, log |-> LogLine("[CACHE] EPSS hit", cve_id)]
         ELSE [epss |-> None, log |-> LogLine("[CACHE] No EPSS entry", cve_id)]

\* step 1: the EPSS cache row of cve_id and what it yields
ReadEpssCache(d, clk, cve_id) ==
    LET row == FetchOne(d.epss_cache, cve_id)
    IN IF row # None
         THEN IF is_cache_valid(row[1].last_updated, clk)
                THEN [epss |-> row[1].epss,
                      log |-> LogLine("[CACHE] EPSS hit", cve_id)]
                ELSE [epss |-> None,
                      log |-> LogLine("[CACHE] EPSS expired", cve_id)]
         ELSE [epss |-> None, log |-> LogLine("[CACHE] No EPSS entry", cve_id)]

\* "if epss:" in place of "if epss is not None:"
StoreEpss_truthy(d, clk, cve_id, epss, epss_raw) ==
    IF epss # None /\ epss[1] # 0
      THEN [d EXCEPT
              !.epss_cache = Replace(@,
                  [cve_id |-> cve_id, epss |-> epss,
                   last_updated |-> isoformat(clk)]),
              !.epss_detail = Replace(@,
                  [cve_id |-> cve_id, detail_json |-> PyStr(epss_raw[1]),
                   last_updated |-> isoformat(clk)])]
      ELSE d

\* the fetched score is returned but not kept
StoreEpss_no_write_through(d, clk, cve_id, epss, epss_raw) == d

\* a fetch that yields no score evicts the row it could not refresh
StoreEpss_evicting(d, clk, cve_id, epss, epss_raw) ==
    IF epss # None
      THEN [d EXCEPT
              !.epss_cache = Replace(@,
                  [cve_id |-> cve_id, epss |-> epss,
                   last_updated |-> isoformat(clk)]),
              !.epss_detail =
                  IF EpssTruthy(epss_raw)
                    THEN Replace(@,
                           [cve_id |-> cve_id,
                            detail_json |-> PyStr(epss_raw[1]),
                            last_updated |-> isoformat(clk)])
                    ELSE @]
      ELSE [d EXCEPT !.epss_cache = {r \in @ : r.cve_id # cve_id}]

\* the write-through of a fetched EPSS score
StoreEpss(d, clk, cve_id, epss, epss_raw) ==
    IF epss # None
      THEN [d EXCEPT
              !.epss_cache = Replace(@,
                  [cve_id |-> cve_id, epss |-> epss,
                   last_updated |-> isoformat(clk)]),
              !.epss_detail =
                  IF EpssTruthy(epss_raw)
                    THEN Replace(@,
                           [cve_id |-> cve_id,
                            detail_json |-> PyStr(epss_raw[1]),
                            last_updated |-> isoformat(clk)])
                    ELSE @]
      ELSE d

\* step 2: the CVSS cache row of cve_id and what it yields
ReadCvssCache(d, clk, cve_id) ==
    LET row == FetchOne(d.cvss_cache, cve_id)
    IN IF row # None
         THEN IF is_cache_valid(row[1].last_updated, clk)
                THEN [cvss |-> row[1].cvss, vector |-> row[1].vector,
                      log |-> LogLine("[CACHE] CVSS hit", cve_id)]
                ELSE [cvss |-> None, vector |-> None,
                      log |-> LogLine("[CACHE] CVSS expired", cve_id)]
         ELSE [cvss |-> None, vector |-> None,
               log |-> LogLine("[CACHE] No CVSS entry", cve_id)]

\* the write-through without the test "cvss is not None"
StoreCvss_unguarded(d, clk, cve_id, cvss, vector, cvss_raw) ==
    [d EXCEPT !.cvss_cache = Replace(@,
                  [cve_id |-> cve_id, cvss |-> cvss, vector |-> vector,
                   last_updated |-> isoformat(clk)])]

\* the CVSS score is stored only for an identifier that has an EPSS row
StoreCvss_after_epss(d, clk, cve_id, cvss, vector, cvss_raw) ==
    IF cvss # None /\ {r \in d.epss_cache : r.cve_id = cve_id} # {}
      THEN [d EXCEPT
              !.cvss_cache = Replace(@,
                  [cve_id |-> cve_id, cvss |-> cvss, vector |-> vector,
                   last_updated |-> isoformat(clk)])]
      ELSE d

\* the write-through of a fetched CVSS score
StoreCvss(d, clk, cve_id, cvss, vector, cvss_raw) ==
    IF cvss # None
      THEN [d EXCEPT
              !.cvss_cache = Replace(@,
                  [cve_id |-> cve_id, cvss |-> cvss, vector |-> vector,
                   last_updated |-> isoformat(clk)]),
              !.cve_detail =
                  IF NvdTruthy(cvss_raw)
                    THEN Replace(@,
                           [cve_id |-> cve_id,
                            detail_json |-> PyStr(cvss_raw[1]),
                            last_updated |-> isoformat(clk)])
                    ELSE @]
      ELSE d

\* the dictionary of a full lookup is returned without the vector and the
\* payloads
LookupResult_bare(cve_id, full, epss, cvss, vector, epss_raw, cvss_raw) ==
    [full |-> full, cve |-> IF full THEN Some(cve_id) ELSE None,
     epss |-> epss, cvss |-> cvss,
     vector |-> None, epss_detail |-> None, cvss_detail |-> None]

\* the value lookup_cve returns: the dictionary when full, else the pair
LookupResult(cve_id, full, epss, cvss, vector, epss_raw, cvss_raw) ==
    IF full
      THEN [full |-> TRUE, cve |-> Some(cve_id), epss |-> epss, cvss |-> cvss,
            vector |-> vector, epss_detail |-> epss_raw,
            cvss_detail |-> cvss_raw]
      ELSE [full |-> FALSE, cve |-> None, epss |-> epss, cvss |-> cvss,
            vector |-> None, epss_detail |-> None, cvss_detail |-> None]

\* The statements of lookup_cve on the SQLite file are not inside any try:
\* an sqlite3 error raised by one of them leaves lookup_cve as an exception.
\* A fault names the statement that raises, if the call comes to execute it.
NoFault == "none"
StorageFaults == {"select_epss", "replace_epss", "select_cvss", "replace_cvss"}

\* The result of one call: the tables it leaves, the remote calls it made
\* in order with the answers they got, the lines it logged, whether it
\* raised, whether it came to conn.close(), and the value it returns when
\* it does not raise.  The call is short against the unit of the clock: all
\* its readings of the clock are clk.  Rows replaced but not committed when
\* the exception leaves the call are not in the file.
LookupCve(d, clk, key_file, cve_id, full, epss_resp, nvd_resp, fault) ==
    LET raised1 == fault = "select_epss"
        c1 == ReadEpssCache(d, clk, cve_id)
        fetch1 == c1.epss = None
        fe == fetch_epss(cve_id, epss_resp)
        epss == IF fetch1 THEN fe.epss ELSE c1.epss
        epss_raw == IF fetch1 THEN fe.raw ELSE None
        raised2 == fault = "replace_epss" /\ fetch1 /\ epss # None
        d1 == IF fetch1 THEN StoreEpss(d, clk, cve_id, epss, epss_raw) ELSE d
        raised3 == fault = "select_cvss"
        c2 == ReadCvssCache(d1, clk, cve_id)
        need2 == c2.cvss = None
        api_key == get_nvd_api_key(key_file)
        fetch2 == need2 /\ ~NoApiKey(api_key)
        fc == fetch_cvss(cve_id, api_key, nvd_resp)
        cvss == IF fetch2 THEN fc.cvss ELSE c2.cvss
        vector == IF fetch2 THEN fc.vector ELSE c2.vector
        cvss_raw == IF fetch2 THEN fc.raw ELSE None
        raised4 == fault = "replace_cvss" /\ fetch2 /\ cvss # None
        d2 == IF fetch2 THEN StoreCvss(d1, clk, cve_id, cvss, vector, cvss_raw)
                        ELSE d1
        \* the call came to its second half, the CVSS cache check
        half2 == ~raised1 /\ ~raised2 /\ ~raised3
        raised == raised1 \/ raised2 \/ raised3 \/ raised4
    IN [db |-> IF raised1 \/ raised2 THEN d
                ELSE IF raised3 \/ raised4 THEN d1 ELSE d2,
        calls |-> (IF ~raised1 /\ fetch1 THEN fe.calls ELSE <<>>)
                    \o (IF half2 /\ fetch2 THEN fc.calls ELSE <<>>),
        answers |-> [epss |-> IF ~raised1 /\ fetch1 THEN Some(epss_resp) ELSE None,
                     nvd |-> IF half2 /\ fetch2 THEN Some(nvd_resp) ELSE None],
        logs |-> (IF raised1 THEN <<>> ELSE <<c1.log>>)
                   \o (IF half2 THEN <<c2.log>> ELSE <<>>)
                   \o (IF half2 /\ need2 /\ NoApiKey(api_key)
                         THEN <<LogLine("[NVD] Missing API Key. Cannot fetch CVSS.",
                                        <<>>)>>
                         ELSE <<>>),
        raised |-> raised,
        closed |-> ~raised,
        ret |-> LookupResult(cve_id, full, epss, cvss, vector, epss_raw, cvss_raw)]

\* ------------------------------------------------------------------------
\* Answers the two services give in the model
\* ------------------------------------------------------------------------
EpssAnswer(ok, has_data, data) == [ok |-> ok, has_data |-> has_data, data |-> data]

EpssResponses ==
    { EpssAnswer(FALSE, FALSE, <<>>),
      EpssAnswer(TRUE, TRUE, <<>>),
      EpssAnswer(TRUE, TRUE, <<[epss |-> Some("0.0")]>>),
      EpssAnswer(TRUE, TRUE, <<[epss |-> Some("0.5")]>>),
      EpssAnswer(TRUE, TRUE, <<[epss |-> Some("n/a")]>>) }

Metric(score, vec) ==
    [cvssData |-> Some([baseScore |-> score, vectorString |-> vec])]

Metrics(v31, v30, v2) ==
    [cvssMetricV31 |-> v31, cvssMetricV30 |-> v30, cvssMetricV2 |-> v2]

NvdAnswer(ok, has_vulns, vulns) == [ok |-> ok, has_vulns |-> has_vulns, vulns |-> vulns]

NvdResponses ==
    { NvdAnswer(FALSE, FALSE, <<>>),
      NvdAnswer(TRUE, TRUE, <<>>),
      NvdAnswer(TRUE, TRUE, <<[metrics |-> Metrics(None, None, None)]>>),
      NvdAnswer(TRUE, TRUE,
          <<[metrics |-> Metrics(Some(<<Metric(0, "AV:L")>>), None, None)]>>),
      NvdAnswer(TRUE, TRUE,
          <<[metrics |-> Metrics(None, None, Some(<<Metric(75, "AV:N")>>))]>>) }

\* ------------------------------------------------------------------------
\* State
\* ------------------------------------------------------------------------
VARIABLES
    db,       \* the four tables of cve_cache.db
    now,      \* the clock, in days
    keyFile,  \* nvd.key: None, or Some(content)
    upd,      \* update_db: its position, its force flag and the rows it read
    op,       \* the step taken last
    calls,    \* the remote calls of that step, in order
    logs,     \* the lines that step logged
    ret,      \* the value lookup_cve returned in that step, None without one
    conn,     \* the SQLite connection of the lookup_cve of that step
    resp,     \* the answers the two services gave in that step
    inFile,   \* the CSV file to process: None, or Some(header and rows)
    outFile,  \* the "_updated" CSV file: None, or Some(header and rows)
    proc,     \* process_and_update_csv: its position and its local variables
    progress, \* the calls of progress_callback made by the run, in order
    gui       \* the window: cancel_flag, its two threads and the last report

pipeVars == <<inFile, outFile, proc, progress>>

vars == <<db, now, keyFile, upd, op, calls, logs, ret, conn, resp, pipeVars, gui>>

\* no request was made to either service
NoAnswers == [epss |-> None, nvd |-> None]

ProcIdle ==
    [pc |-> "idle", result |-> "", rows |-> <<>>, fieldnames |-> <<>>,
     cve_column |-> None, total_rows |-> 0, processed |-> 0,
     batch_buffer |-> <<>>, i |-> 0, polls |-> 0]

\* no CSV file is being processed
NoPipeline ==
    /\ inFile = None
    /\ outFile = None
    /\ proc = ProcIdle
    /\ progress = <<>>

Step(name, cve_id, lookup) == [name |-> name, cve_id |-> cve_id, lookup |-> lookup]

UpdIdle == [pc |-> "idle", force |-> FALSE, rows |-> <<>>, i |-> 0]

\* CVEProcessorGUI.__init__: cancel_flag is False and no thread is at work.
\* worker is the position of the thread of run_processing, main that of the
\* thread of the window; report is the outcome the last run showed; pending
\* tells that Cancel was pressed since the Start of the run under way.
GuiIdle ==
    [cancel_flag |-> FALSE, worker |-> "none", main |-> "idle", report |-> "",
     pending |-> FALSE]

Init ==
    /\ db = EmptyDb
    /\ now = 0
    /\ keyFile = None
    /\ upd = UpdIdle
    /\ op = Step("init", None, FALSE)
    /\ gui = GuiIdle
    /\ calls = <<>>
    /\ logs = <<>>
    /\ ret = None
    /\ conn = "none"
    /\ resp = NoAnswers
    /\ NoPipeline

\* the clock advances
Tick(days) ==
    /\ upd.pc = "idle"
    /\ proc.pc = "idle"
    /\ now < MaxTime
    /\ now' = now + days
    /\ op' = Step("tick", None, FALSE)
    /\ calls' = <<>>
    /\ logs' = <<>>
    /\ ret' = None
    /\ conn' = "none"
    /\ resp' = NoAnswers
    /\ UNCHANGED <<gui, db, keyFile, upd, pipeVars>>

\* a direct call of lookup_cve(cve_id, full); the services answer with one of
\* epss_answers and one of nvd_answers, and the storage fails with one of
\* faults
Lookup(cve_id, full, epss_answers, nvd_answers, faults) ==
    /\ upd.pc = "idle"
    /\ \E epss_resp \in epss_answers, nvd_resp \in nvd_answers, fault \in faults :
         LET res == LookupCve(db, now, keyFile, cve_id, full, epss_resp, nvd_resp,
                              fault)
         IN /\ db' = res.db
            /\ calls' = res.calls
            /\ logs' = res.logs
            /\ ret' = IF res.raised THEN None ELSE Some(res.ret)
            /\ conn' = IF res.closed THEN "closed" ELSE "open"
            /\ resp' = res.answers
    /\ op' = Step("lookup_cve", Some(cve_id), TRUE)
    /\ UNCHANGED <<gui, now, keyFile, upd, pipeVars>>

\* ------------------------------------------------------------------------
\* update_db
\* ------------------------------------------------------------------------
\* the orders in which fetchall() may list the rows of a table
Orderings(S) ==
    {s \in [1..Cardinality(S) -> S] :
        \A i, j \in 1..Cardinality(S) : s[i] = s[j] => i = j}

\* SELECT cve_id, last_updated FROM cvss_cache
SelectIdAndDate(table) ==
    {[i \in 1..Len(s) |-> <<s[i].cve_id, s[i].last_updated>>] :
        s \in Orderings(table)}

\* the forgotten "not"
NeedsRefresh_unnegated(force, last_updated, clk) ==
    force \/ is_cache_valid(last_updated, clk)

\* "if force or not is_cache_valid(last_updated)"
NeedsRefresh(force, last_updated, clk) ==
    force \/ ~is_cache_valid(last_updated, clk)

\* the identifiers are read from epss_cache
UpdateDbStart_epss_ids(force) ==
    /\ upd.pc = "idle"
    /\ \E rows \in SelectIdAndDate(db.epss_cache) :
         upd' = [pc |-> "loop", force |-> force, rows |-> rows, i |-> 1]
    /\ op' = Step("update_db", None, FALSE)
    /\ calls' = <<>>
    /\ logs' = <<LogLine("[DB] Starting update...", <<>>)>>
    /\ ret' = None
    /\ conn' = "none"
    /\ resp' = NoAnswers
    /\ UNCHANGED <<gui, db, now, keyFile, pipeVars>>

\* update_db(force) up to and including fetchall()
UpdateDbStart(force) ==
    /\ upd.pc = "idle"
    /\ \E rows \in SelectIdAndDate(db.cvss_cache) :
         upd' = [pc |-> "loop", force |-> force, rows |-> rows, i |-> 1]
    /\ op' = Step("update_db", None, FALSE)
    /\ calls' = <<>>
    /\ logs' = <<LogLine("[DB] Starting update...", <<>>)>>
    /\ ret' = None
    /\ conn' = "none"
    /\ resp' = NoAnswers
    /\ UNCHANGED <<gui, db, now, keyFile, pipeVars>>

\* one iteration of the loop over the rows read at the start
UpdateDbRow(epss_answers, nvd_answers) ==
    /\ upd.pc = "loop"
    /\ upd.i <= Len(upd.rows)
    /\ LET cve_id == upd.rows[upd.i][1]
           last_updated == upd.rows[upd.i][2]
       IN IF NeedsRefresh(upd.force, last_updated, now)
            THEN /\ \E epss_resp \in epss_answers, nvd_resp \in nvd_answers :
                      LET res == LookupCve(db, now, keyFile, cve_id, TRUE,
                                           epss_resp, nvd_resp, NoFault)
                      IN /\ db' = res.db
                         /\ calls' = res.calls
                         /\ logs' = <<LogLine("[DB] Updating", cve_id)>> \o res.logs
                         /\ ret' = IF res.raised THEN None ELSE Some(res.ret)
                         /\ conn' = IF res.closed THEN "closed" ELSE "open"
                         /\ resp' = res.answers
                 /\ op' = Step("update_db_row", Some(cve_id), TRUE)
            ELSE /\ db' = db
                 /\ calls' = <<>>
                 /\ logs' = <<LogLine("[DB] Skipping fresh", cve_id)>>
                 /\ ret' = None
                 /\ conn' = "none"
                 /\ resp' = NoAnswers
                 /\ op' = Step("update_db_row", Some(cve_id), FALSE)
    /\ upd' = [upd EXCEPT !.i = @ + 1]
    /\ UNCHANGED <<gui, now, keyFile, pipeVars>>

\* the loop is over: conn.close() and return
UpdateDbEnd ==
    /\ upd.pc = "loop"
    /\ upd.i > Len(upd.rows)
    /\ upd' = UpdIdle
    /\ op' = Step("update_db_end", None, FALSE)
    /\ calls' = <<>>
    /\ logs' = <<LogLine("[DB] Update complete.", <<>>)>>
    /\ ret' = None
    /\ conn' = "none"
    /\ resp' = NoAnswers
    /\ UNCHANGED <<gui, db, now, keyFile, pipeVars>>

\* ------------------------------------------------------------------------
\* The key file: prompt_and_store_nvd_key and what may happen to the file
\* ------------------------------------------------------------------------
KeyInputs == {<<>>, <<" ">>, <<"k">>, <<" ", "k", " ">>}

prompt_and_store_nvd_key(file, input) ==
    LET key == strip(input)
    IN IF key = <<>>
         THEN [file |-> file, ret |-> None]
         ELSE [file |-> Some(b64encode(encode(key))), ret |-> Some(key)]

PromptAndStore(input) ==
    /\ upd.pc = "idle"
    /\ keyFile' = prompt_and_store_nvd_key(keyFile, input).file
    /\ op' = Step("prompt_and_store_nvd_key", None, FALSE)
    /\ calls' = <<>>
    /\ logs' = <<>>
    /\ ret' = prompt_and_store_nvd_key(keyFile, input).ret
    /\ conn' = "none"
    /\ resp' = NoAnswers
    /\ UNCHANGED <<gui, db, now, upd, pipeVars>>

\* the file is deleted, emptied, or overwritten with bytes that are not
\* base64 text ("?")
KeyFileDamaged ==
    /\ keyFile # None
    /\ keyFile' \in {None, Some(<<>>), Some(<<ForeignByte>>)}
    /\ keyFile' # keyFile
    /\ op' = Step("key_file_damaged", None, FALSE)
    /\ calls' = <<>>
    /\ logs' = <<>>
    /\ ret' = None
    /\ conn' = "none"
    /\ resp' = NoAnswers
    /\ UNCHANGED <<gui, db, now, upd, pipeVars>>

\* ------------------------------------------------------------------------
\* Spec: lookups of one identifier against every answer of the services
\* ------------------------------------------------------------------------
Next ==
    \/ Tick(TickDays)
    \/ \E full \in BOOLEAN :
         Lookup(<<"A">>, full, EpssResponses, NvdResponses, {NoFault})
    \/ \E input \in KeyInputs : PromptAndStore(input)
    \/ KeyFileDamaged

Spec == Init /\ [][Next]_vars

\* ------------------------------------------------------------------------
\* SpecRefresh: lookups and refreshes over two identifiers; a service
\* either fails or answers with one score
\* ------------------------------------------------------------------------
RefreshEpssResponses ==
    { EpssAnswer(FALSE, FALSE, <<>>),
      EpssAnswer(TRUE, TRUE, <<[epss |-> Some("0.5")]>>) }

RefreshNvdResponses ==
    { NvdAnswer(FALSE, FALSE, <<>>),
      NvdAnswer(TRUE, TRUE,
          <<[metrics |-> Metrics(None, None, Some(<<Metric(75, "AV:N")>>))]>>) }

InitRefresh ==
    /\ db = EmptyDb
    /\ now = 0
    /\ keyFile \in {None, Some(b64encode(encode(<<"k">>)))}
    /\ upd = UpdIdle
    /\ op = Step("init", None, FALSE)
    /\ gui = GuiIdle
    /\ calls = <<>>
    /\ logs = <<>>
    /\ ret = None
    /\ conn = "none"
    /\ resp = NoAnswers
    /\ NoPipeline

NextRefresh ==
    \/ Tick(RefreshTickDays)
    \/ \E cve_id \in Ids :
         Lookup(cve_id, FALSE, RefreshEpssResponses, RefreshNvdResponses, {NoFault})
    \/ \E force \in BOOLEAN : UpdateDbStart(force)
    \/ UpdateDbRow(RefreshEpssResponses, RefreshNvdResponses)
    \/ UpdateDbEnd
    \/ KeyFileDamaged

SpecRefresh == InitRefresh /\ [][NextRefresh]_vars

\* ------------------------------------------------------------------------
\* process_and_update_csv
\* ------------------------------------------------------------------------
batch_size == 100

\* str.lower() on the letters that occur in column names
UpperLetters == <<"C", "V", "E", "I", "D">>
LowerLetters == <<"c", "v", "e", "i", "d">>

LowerChar(c) ==
    IF \E k \in 1..Len(UpperLetters) : UpperLetters[k] = c
      THEN LowerLetters[CHOOSE k \in 1..Len(UpperLetters) : UpperLetters[k] = c]
      ELSE c

lower(s) == [k \in 1..Len(s) |-> LowerChar(s[k])]

\* the names are stripped before they are compared
RECURSIVE find_cve_column_stripping(_)
find_cve_column_stripping(fieldnames) ==
    IF fieldnames = <<>>
      THEN None
      ELSE IF lower(strip(Head(fieldnames))) = <<"c", "v", "e", "i", "d">>
        THEN Some(Head(fieldnames))
        ELSE find_cve_column_stripping(Tail(fieldnames))

\* the first name that is "cveid" in lower case, None without one
RECURSIVE find_cve_column(_)
find_cve_column(fieldnames) ==
    IF fieldnames = <<>>
      THEN None
      ELSE IF lower(Head(fieldnames)) = <<"c", "v", "e", "i", "d">>
        THEN Some(Head(fieldnames))
        ELSE find_cve_column(Tail(fieldnames))

\* the test without strip()
IsBlank_unstripped(cve_value) == cve_value = None \/ cve_value[1] = <<>>

\* "not cve_value or cve_value.strip() == ''" for the value of row.get()
IsBlank(cve_value) ==
    cve_value = None \/ cve_value[1] = <<>> \/ strip(cve_value[1]) = <<>>

\* "x if x else 'Not Found'" for a score x returned by lookup_cve
OrNotFound(x) ==
    IF x # None /\ x[1] # 0 THEN <<"float", x[1]>> ELSE <<"str", "Not Found">>

\* str() of a float, as csv.DictWriter writes it
FloatText(v) ==
    CASE v = 0 -> "0.0"
      [] v = 5 -> "0.5"
      [] v = 75 -> "7.5"

CsvText(value) == IF value[1] = "float" THEN FloatText(value[2]) ELSE value[2]

\* writer.writerows(batch_buffer): the lines appended to the file
CsvLines(buffer) ==
    [k \in 1..Len(buffer) |->
        [line |-> buffer[k].line, dict |-> buffer[k].dict,
         epss |-> CsvText(buffer[k].epss), cvss |-> CsvText(buffer[k].cvss)]]

Raised(exception) == [ProcIdle EXCEPT !.pc = "raised", !.result = exception]

\* process_and_update_csv up to the loop: find the file, load it, find the
\* CVEID column, open the output file and write its header
ProcessStart ==
    /\ proc.pc = "idle"
    /\ upd.pc = "idle"
    /\ IF inFile = None
         THEN /\ proc' = Raised("FileNotFoundError")
              /\ outFile' = outFile
         ELSE IF inFile[1].rows = <<>>
           THEN /\ proc' = Raised("RuntimeError")
                /\ outFile' = outFile
           ELSE LET fieldnames == inFile[1].fieldnames
                    cve_column == find_cve_column(fieldnames)
                IN IF cve_column = None
                     THEN /\ proc' = Raised("KeyError")
                          /\ outFile' = outFile
                     ELSE /\ proc' = [pc |-> "loop", result |-> "",
                                      rows |-> inFile[1].rows,
                                      fieldnames |-> fieldnames,
                                      cve_column |-> cve_column,
                                      total_rows |-> Len(inFile[1].rows),
                                      processed |-> 0,
                                      batch_buffer |-> <<>>, i |-> 1,
                                      polls |-> 0]
                          /\ outFile' = Some([fieldnames |->
                                                fieldnames \o <<<<"e", "p", "s", "s">>,
                                                                <<"c", "v", "s", "s">>>>,
                                              rows |-> <<>>])
    /\ op' = Step("process_and_update_csv", None, FALSE)
    /\ calls' = <<>>
    /\ logs' = IF proc'.pc = "loop"
                 THEN <<LogLine("[PROCESS] Located file", <<>>),
                        LogLine("[PROCESS] CVE column detected", proc'.cve_column[1]),
                        LogLine("[PROCESS] Starting per-row CVE lookups...", <<>>)>>
                 ELSE IF inFile = None
                   THEN <<>>
                   ELSE <<LogLine("[PROCESS] Located file", <<>>)>>
    /\ ret' = None
    /\ conn' = "none"
    /\ resp' = NoAnswers
    /\ progress' = <<>>
    /\ UNCHANGED <<gui, db, now, keyFile, upd, inFile>>

\* ">" in place of ">=" in the test of the flush
AfterRow_late_flush(row, epss, cvss) ==
    LET done == [line |-> row.line, dict |-> row.dict, epss |-> epss, cvss |-> cvss]
        buffer == Append(proc.batch_buffer, done)
        processed == proc.processed + 1
        flush == Len(buffer) > batch_size
    IN /\ outFile' = IF flush
                       THEN Some([outFile[1] EXCEPT !.rows = @ \o CsvLines(buffer)])
                       ELSE outFile
       /\ proc' = [proc EXCEPT !.batch_buffer = IF flush THEN <<>> ELSE buffer,
                               !.processed = processed,
                               !.i = @ + 1,
                               !.polls = @ + 1]
       /\ progress' = Append(progress, <<processed, proc.total_rows>>)

\* progress is reported only when a batch is flushed
AfterRow_progress_per_batch(row, epss, cvss) ==
    LET done == [line |-> row.line, dict |-> row.dict, epss |-> epss, cvss |-> cvss]
        buffer == Append(proc.batch_buffer, done)
        processed == proc.processed + 1
        flush == Len(buffer) >= batch_size
    IN /\ outFile' = IF flush
                       THEN Some([outFile[1] EXCEPT !.rows = @ \o CsvLines(buffer)])
                       ELSE outFile
       /\ proc' = [proc EXCEPT !.batch_buffer = IF flush THEN <<>> ELSE buffer,
                               !.processed = processed,
                               !.i = @ + 1,
                               !.polls = @ + 1]
       /\ progress' = IF flush
                        THEN Append(progress, <<processed, proc.total_rows>>)
                        ELSE progress

\* the row with its two new columns, its place in the buffer, the count,
\* the flush of a full buffer and the progress call
AfterRow(row, epss, cvss) ==
    LET done == [line |-> row.line, dict |-> row.dict, epss |-> epss, cvss |-> cvss]
        buffer == Append(proc.batch_buffer, done)
        processed == proc.processed + 1
        flush == Len(buffer) >= batch_size
    IN /\ outFile' = IF flush
                       THEN Some([outFile[1] EXCEPT !.rows = @ \o CsvLines(buffer)])
                       ELSE outFile
       /\ proc' = [proc EXCEPT !.batch_buffer = IF flush THEN <<>> ELSE buffer,
                               !.processed = processed,
                               !.i = @ + 1,
                               !.polls = @ + 1]
       /\ progress' = Append(progress, <<processed, proc.total_rows>>)

\* the exception of the lookup leaves the loop
LookupFailed_aborting(row) ==
    /\ proc' = Raised("IOError")
    /\ UNCHANGED <<gui, outFile, progress>>

\* the branch "except Exception" of the lookup of a row
LookupFailed(row) == AfterRow(row, <<"str", "Error">>, <<"str", "Error">>)

\* the rows still in the buffer are written before the return
CancelRun_flushing ==
    /\ proc' = [proc EXCEPT !.pc = "returned", !.result = "None",
                            !.batch_buffer = <<>>, !.polls = @ + 1]
    /\ outFile' = Some([outFile[1] EXCEPT !.rows = @ \o CsvLines(proc.batch_buffer)])
    /\ UNCHANGED <<gui, db, progress>>

\* the request is logged and the loop goes on with the same row
CancelRun_continuing ==
    /\ proc' = [proc EXCEPT !.polls = @ + 1]
    /\ UNCHANGED <<gui, db, outFile, progress>>

\* "return" at the top of the loop: the file is closed as it stands
CancelRun ==
    /\ proc' = [proc EXCEPT !.pc = "returned", !.result = "None", !.polls = @ + 1]
    /\ UNCHANGED <<gui, db, outFile, progress>>

\* one iteration of the loop over the rows; cancelled is what cancel_check()
\* returns at its top; polls counts the calls of cancel_check()
ProcessRow(cancelled, epss_answers, nvd_answers, faults) ==
    /\ proc.pc = "loop"
    /\ proc.i <= Len(proc.rows)
    /\ IF cancelled
         THEN /\ CancelRun
              /\ op' = Step("process_cancel", None, FALSE)
              /\ calls' = <<>>
              /\ logs' = <<LogLine("[PROCESS] Cancel requested by user.", <<>>)>>
              /\ ret' = None
              /\ conn' = "none"
              /\ resp' = NoAnswers
         ELSE LET row == proc.rows[proc.i]
                  cve_value == row.dict[proc.cve_column[1]]
              IN IF IsBlank(cve_value)
                   THEN /\ AfterRow(row, <<"str", "Missing">>, <<"str", "Missing">>)
                        /\ op' = Step("process_row", cve_value, FALSE)
                        /\ calls' = <<>>
                        /\ logs' = <<>>
                        /\ ret' = None
                        /\ conn' = "none"
                        /\ resp' = NoAnswers
                        /\ db' = db
                   ELSE \E epss_resp \in epss_answers, nvd_resp \in nvd_answers,
                           fault \in faults :
                          LET res == LookupCve(db, now, keyFile, cve_value[1], FALSE,
                                               epss_resp, nvd_resp, fault)
                          IN /\ IF res.raised
                                  THEN LookupFailed(row)
                                  ELSE AfterRow(row, OrNotFound(res.ret.epss),
                                                OrNotFound(res.ret.cvss))
                             /\ op' = Step("process_row", cve_value, TRUE)
                             /\ calls' = res.calls
                             /\ logs' = res.logs
                                          \o (IF res.raised
                                                THEN <<LogLine("[ERROR] Failed lookup",
                                                               cve_value[1])>>
                                                ELSE <<>>)
                             /\ ret' = IF res.raised THEN None ELSE Some(res.ret)
                             /\ conn' = IF res.closed THEN "closed" ELSE "open"
                             /\ resp' = res.answers
                             /\ db' = res.db
    /\ UNCHANGED <<gui, now, keyFile, upd, inFile>>

\* the loop is over: flush the rows left in the buffer, return the path
ProcessEnd ==
    /\ proc.pc = "loop"
    /\ proc.i > Len(proc.rows)
    /\ outFile' = IF proc.batch_buffer # <<>>
                    THEN Some([outFile[1] EXCEPT
                                 !.rows = @ \o CsvLines(proc.batch_buffer)])
                    ELSE outFile
    /\ proc' = [proc EXCEPT !.pc = "returned", !.result = "output_file"]
    /\ op' = Step("process_end", None, FALSE)
    /\ calls' = <<>>
    /\ logs' = <<LogLine("[PROCESS] Finished processing.", <<>>)>>
    /\ ret' = None
    /\ conn' = "none"
    /\ resp' = NoAnswers
    /\ UNCHANGED <<gui, db, now, keyFile, upd, inFile, progress>>

\* ------------------------------------------------------------------------
\* SpecProcess: one run of process_and_update_csv over a table
\* ------------------------------------------------------------------------
\* rows of the tables whose every sequence of cells is tried
MaxShortRows == 2
\* full batches of the long tables
MaxBatches == 2

CVEID == <<"C", "V", "E", "I", "D">>
CveId == <<"C", "v", "e", "I", "d">>
cveid == <<"c", "v", "e", "i", "d">>
OtherColumn == <<"n">>

\* headers, each with the position of the column that holds the identifiers
HeaderChoices ==
    { [fieldnames |-> <<OtherColumn, CVEID>>, idcol |-> 2],
      [fieldnames |-> <<CveId, OtherColumn>>, idcol |-> 1],
      [fieldnames |-> <<cveid>>, idcol |-> 1],
      [fieldnames |-> <<CVEID, cveid>>, idcol |-> 1],
      [fieldnames |-> <<OtherColumn, <<"c", "v", "e">>>>, idcol |-> 2],
      [fieldnames |-> <<<<"c", "v", "e", "i", "d", " ">>, OtherColumn>>, idcol |-> 1],
      [fieldnames |-> <<OtherColumn>>, idcol |-> 1] }

\* the value of row.get(): None for a cell the line does not have
Cells == {None, Some(<<>>), Some(<<" ">>), Some(<<"A">>), Some(<<"B">>)}

\* csv.DictReader: the file with this header whose line k has cells[k] in
\* the identifier column and "x" in the other columns
MkTable(h, cells) ==
    [fieldnames |-> h.fieldnames,
     rows |-> [k \in 1..Len(cells) |->
                [line |-> k,
                 dict |-> [name \in {h.fieldnames[c] : c \in 1..Len(h.fieldnames)} |->
                            IF name = h.fieldnames[h.idcol]
                              THEN cells[k] ELSE Some(<<"x">>)]]]]

CellSeqs(n) == UNION {[1..k -> Cells] : k \in 0..n}

StandardHeader == [fieldnames |-> <<OtherColumn, CVEID>>, idcol |-> 2]

ShortTables == {MkTable(StandardHeader, cells) : cells \in CellSeqs(MaxShortRows)}

HeaderTables == {MkTable(h, <<Some(<<"A">>)>>) : h \in HeaderChoices}

\* a long table: blank cells, but an identifier in the last line of each
\* full batch
LongRowCounts == {k * batch_size + e : k \in 1..MaxBatches, e \in 0..1}

LongTables ==
    {MkTable(StandardHeader,
             [k \in 1..n |-> IF k % batch_size = 0 THEN Some(<<"A">>) ELSE Some(<<>>)]) :
        n \in LongRowCounts}

ProcessEpssResponses ==
    { EpssAnswer(FALSE, FALSE, <<>>),
      EpssAnswer(TRUE, TRUE, <<[epss |-> Some("0.0")]>>),
      EpssAnswer(TRUE, TRUE, <<[epss |-> Some("0.5")]>>) }

ProcessNvdResponses ==
    { NvdAnswer(FALSE, FALSE, <<>>),
      NvdAnswer(TRUE, TRUE,
          <<[metrics |-> Metrics(Some(<<Metric(0, "AV:L")>>), None, None)]>>),
      NvdAnswer(TRUE, TRUE,
          <<[metrics |-> Metrics(None, None, Some(<<Metric(75, "AV:N")>>))]>>) }

GoodKeyFile == Some(b64encode(encode(<<"k">>)))

\* the tables after a lookup of "A" on day 0 that fetched both scores
SeededDb(epss_text, cvss_metric) ==
    LookupCve(EmptyDb, 0, GoodKeyFile, <<"A">>, FALSE,
              EpssAnswer(TRUE, TRUE, <<[epss |-> Some(epss_text)]>>),
              NvdAnswer(TRUE, TRUE,
                  <<[metrics |-> Metrics(Some(<<cvss_metric>>), None, None)]>>),
              NoFault).db

\* the cache and the clock a run starts with: an empty cache, or the rows
\* of an earlier lookup, still valid or expired since
Seeds ==
    { [db |-> EmptyDb, now |-> 0],
      [db |-> SeededDb("0.5", Metric(75, "AV:N")), now |-> 0],
      [db |-> SeededDb("0.0", Metric(0, "AV:L")), now |-> 0],
      [db |-> SeededDb("0.5", Metric(75, "AV:N")), now |-> MaxTime] }

\* an "_updated" file left by an earlier run
OldOutFile == Some([fieldnames |-> <<<<"o", "l", "d">>>>, rows |-> <<>>])

InitProcess ==
    /\ \/ /\ inFile \in {None} \cup {Some(t) : t \in ShortTables \cup HeaderTables}
          /\ \E seed \in Seeds : db = seed.db /\ now = seed.now
          /\ keyFile \in {None, GoodKeyFile}
          /\ outFile \in {None, OldOutFile}
       \/ /\ inFile \in {Some(t) : t \in LongTables}
          /\ db = EmptyDb /\ now = 0
          /\ keyFile = GoodKeyFile
          /\ outFile = None
    /\ upd = UpdIdle
    /\ proc = ProcIdle
    /\ progress = <<>>
    /\ op = Step("init", None, FALSE)
    /\ gui = GuiIdle
    /\ calls = <<>>
    /\ logs = <<>>
    /\ ret = None
    /\ conn = "none"
    /\ resp = NoAnswers

NextProcess ==
    \/ ProcessStart
    \/ \E cancelled \in BOOLEAN :
         ProcessRow(cancelled, ProcessEpssResponses, ProcessNvdResponses,
                    {NoFault} \cup StorageFaults)
    \/ ProcessEnd

SpecProcess == InitProcess /\ [][NextProcess]_vars

\* ------------------------------------------------------------------------
\* SpecFaults: lookups of one identifier on a storage that may fail at any
\* of the four statements of lookup_cve on the cache tables
\* ------------------------------------------------------------------------
InitFaults ==
    /\ db = EmptyDb
    /\ now = 0
    /\ keyFile \in {None, GoodKeyFile}
    /\ upd = UpdIdle
    /\ op = Step("init", None, FALSE)
    /\ gui = GuiIdle
    /\ calls = <<>>
    /\ logs = <<>>
    /\ ret = None
    /\ conn = "none"
    /\ resp = NoAnswers
    /\ NoPipeline

NextFaults ==
    \/ Tick(RefreshTickDays)
    \/ \E full \in BOOLEAN :
         Lookup(<<"A">>, full, RefreshEpssResponses, RefreshNvdResponses,
                {NoFault} \cup StorageFaults)

SpecFaults == InitFaults /\ [][NextFaults]_vars

\* ------------------------------------------------------------------------
\* SpecValidity: is_cache_valid applied to every timestamp text on every
\* day.  SpecSeverity: fetch_cvss applied to every shape of the answer of
\* the NVD service.
\* ------------------------------------------------------------------------
\* what the column last_updated may hold: NULL, a text that is no ISO
\* timestamp, or the timestamp of a day of the model
DateTexts == {None, <<"text", "yesterday">>} \cup {isoformat(t) : t \in 0..MaxTime}

\* a metric object without "cvssData"
Malformed == [cvssData |-> None]

\* what a scheme key of "metrics" may hold when its first well-formed metric
\* object has this score and vector: no key, an empty list, lists that
\* start with a malformed object, and lists that start with the object
SchemeLists(score, vec) ==
    { None, Some(<<>>), Some(<<Malformed>>),
      Some(<<Malformed, Metric(score, vec)>>),
      Some(<<Metric(score, vec)>>),
      Some(<<Metric(score, vec), Metric(10, "second")>>) }

MetricShapes ==
    { Metrics(v31, v30, v2) :
        v31 \in SchemeLists(98, "CVSS:3.1"),
        v30 \in SchemeLists(75, "CVSS:3.0"),
        v2 \in SchemeLists(50, "AV:N") }

NvdShapes ==
    { NvdAnswer(FALSE, FALSE, <<>>),
      NvdAnswer(TRUE, FALSE, <<>>),
      NvdAnswer(TRUE, TRUE, <<>>) }
    \cup { NvdAnswer(TRUE, TRUE, <<[metrics |-> m]>>) : m \in MetricShapes }
    \cup { NvdAnswer(TRUE, TRUE,
                     <<[metrics |-> Metrics(None, None, Some(<<Metric(50, "AV:N")>>))],
                       [metrics |-> Metrics(Some(<<Metric(98, "CVSS:3.1")>>),
                                            None, None)]>>) }

InitValidity ==
    /\ \E ts \in DateTexts :
          db = [EmptyDb EXCEPT !.cvss_cache =
                   {[cve_id |-> <<"A">>, cvss |-> Some(75), vector |-> Some("AV:N"),
                     last_updated |-> ts]}]
    /\ now \in 0..MaxTime
    /\ keyFile = GoodKeyFile
    /\ upd = UpdIdle
    /\ op = Step("init", None, FALSE)
    /\ gui = GuiIdle
    /\ calls = <<>>
    /\ logs = <<>>
    /\ ret = None
    /\ conn = "none"
    /\ resp = NoAnswers
    /\ NoPipeline

\* is_cache_valid(last_updated) for the timestamp of a row of cvss_cache
IsCacheValid ==
    /\ \E r \in db.cvss_cache :
         /\ ret' = Some(is_cache_valid(r.last_updated, now))
         /\ op' = Step("is_cache_valid", Some(r.cve_id), FALSE)
    /\ calls' = <<>>
    /\ logs' = <<>>
    /\ conn' = "none"
    /\ resp' = NoAnswers
    /\ UNCHANGED <<gui, db, now, keyFile, upd, pipeVars>>

\* fetch_cvss(cve_id, api_key) with the key of the key file, against one of
\* nvd_answers
FetchCvss(cve_id, nvd_answers) ==
    /\ \E nvd_resp \in nvd_answers :
         LET res == fetch_cvss(cve_id, get_nvd_api_key(keyFile), nvd_resp)
         IN /\ ret' = Some([cvss |-> res.cvss, vector |-> res.vector,
                            raw |-> res.raw])
            /\ calls' = res.calls
            /\ resp' = [epss |-> None, nvd |-> Some(nvd_resp)]
    /\ op' = Step("fetch_cvss", Some(cve_id), FALSE)
    /\ logs' = <<>>
    /\ conn' = "none"
    /\ UNCHANGED <<gui, db, now, keyFile, upd, pipeVars>>

NextValidity == IsCacheValid

SpecValidity == InitValidity /\ [][NextValidity]_vars

InitSeverity ==
    /\ db = EmptyDb
    /\ now = 0
    /\ keyFile \in {None, GoodKeyFile, Some(<<>>)}
    /\ upd = UpdIdle
    /\ op = Step("init", None, FALSE)
    /\ gui = GuiIdle
    /\ calls = <<>>
    /\ logs = <<>>
    /\ ret = None
    /\ conn = "none"
    /\ resp = NoAnswers
    /\ NoPipeline

NextSeverity == FetchCvss(<<"A">>, NvdShapes)

SpecSeverity == InitSeverity /\ [][NextSeverity]_vars

\* ------------------------------------------------------------------------
\* SpecCredential: the key file is written by prompt_and_store_nvd_key, read
\* by get_nvd_api_key and by lookups, and damaged in between
\* ------------------------------------------------------------------------
MaxKeyLen == 4

CredentialInputs ==
    { <<>>, <<" ">>,
      <<"k">>, <<"k", "e">>, <<"k", "e", "y">>, <<"k", "e", "y", "s">>,
      <<"k", " ", "e">>, <<" ", "k", " ">> }

\* "/w==": the base64 text of the byte 255, which is not UTF-8
NotUtf8File == <<63, 48, Pad, Pad>>

InitCredential ==
    /\ db = EmptyDb
    /\ now = 0
    /\ keyFile = None
    /\ upd = UpdIdle
    /\ op = Step("init", None, FALSE)
    /\ gui = GuiIdle
    /\ calls = <<>>
    /\ logs = <<>>
    /\ ret = None
    /\ conn = "none"
    /\ resp = NoAnswers
    /\ NoPipeline

\* a call of get_nvd_api_key on its own
GetKey ==
    /\ upd.pc = "idle"
    /\ op' = Step("get_nvd_api_key", None, FALSE)
    /\ ret' = get_nvd_api_key(keyFile)
    /\ calls' = <<>>
    /\ logs' = <<>>
    /\ conn' = "none"
    /\ resp' = NoAnswers
    /\ UNCHANGED <<gui, db, now, keyFile, upd, pipeVars>>

\* what happens to the file outside the program
KeyFileSet(name, content) ==
    /\ keyFile' = Some(content)
    /\ keyFile' # keyFile
    /\ op' = Step(name, None, FALSE)
    /\ calls' = <<>>
    /\ logs' = <<>>
    /\ ret' = None
    /\ conn' = "none"
    /\ resp' = NoAnswers
    /\ UNCHANGED <<gui, db, now, upd, pipeVars>>

\* the file loses its last byte
KeyFileTruncated ==
    /\ keyFile # None
    /\ keyFile[1] # <<>>
    /\ keyFile[1] # Unreadable
    /\ KeyFileSet("key_file_truncated", SubSeq(keyFile[1], 1, Len(keyFile[1]) - 1))

\* the file gains a line end, or a byte that is not base64 text, after its
\* last base64 character
KeyFileAppended ==
    /\ keyFile # None
    /\ keyFile[1] # <<>>
    /\ keyFile[1][Len(keyFile[1])] <= Pad
    /\ \E c \in {WhiteSpace, ForeignByte} :
          KeyFileSet("key_file_appended", keyFile[1] \o <<c>>)

\* the file is overwritten with base64 text of bytes that are not UTF-8, or
\* open() refuses it
KeyFileReplaced ==
    /\ keyFile # None
    /\ \E content \in {NotUtf8File, Unreadable} :
          KeyFileSet("key_file_replaced", content)

NextCredential ==
    \/ \E input \in CredentialInputs : PromptAndStore(input)
    \/ GetKey
    \/ KeyFileDamaged
    \/ KeyFileTruncated
    \/ KeyFileAppended
    \/ KeyFileReplaced
    \/ \E full \in BOOLEAN :
         Lookup(<<"A">>, full, RefreshEpssResponses, RefreshNvdResponses, {NoFault})

SpecCredential == InitCredential /\ [][NextCredential]_vars

\* ------------------------------------------------------------------------
\* SpecGui: the window of cve_gui.py.  The thread of the window serves the
\* buttons one at a time; Start hands run_processing to a worker thread,
\* whose steps interleave with those of the window.  (A press of Start
\* while a worker is at work, and an update from the Database tab while
\* the update of the worker is under way, are left out.)
\* ------------------------------------------------------------------------
GuiTables ==
    { MkTable(StandardHeader, <<Some(<<"A">>)>>),
      MkTable(StandardHeader, <<Some(<<"A">>), Some(<<"B">>)>>) }

InitGui ==
    /\ db = EmptyDb
    /\ now = 0
    /\ keyFile = GoodKeyFile
    /\ upd = UpdIdle
    /\ op = Step("init", None, FALSE)
    /\ gui = GuiIdle
    /\ calls = <<>>
    /\ logs = <<>>
    /\ ret = None
    /\ conn = "none"
    /\ resp = NoAnswers
    /\ inFile \in {None} \cup {Some(t) : t \in GuiTables}
    /\ outFile = None
    /\ proc = ProcIdle
    /\ progress = <<>>

\* a step of the window or of run_processing outside the engine
GuiStep(name) ==
    /\ op' = Step(name, None, FALSE)
    /\ calls' = <<>>
    /\ logs' = <<>>
    /\ ret' = None
    /\ conn' = "none"
    /\ resp' = NoAnswers
    /\ UNCHANGED <<db, now, keyFile, inFile, outFile>>

\* run_db_update(force) up to and including the fetchall() of update_db
RunDbUpdate(force) ==
    /\ upd.pc = "idle"
    /\ \E rows \in SelectIdAndDate(db.cvss_cache) :
         upd' = [pc |-> "loop", force |-> force, rows |-> rows, i |-> 1]

\* the worker is between its start and its report
WorkerAtWork == gui.worker \in {"started", "db_update", "reset", "processing"}

\* the button Start Processing: a thread is started for run_processing
StartProcessingThread ==
    /\ gui.main = "idle"
    /\ ~WorkerAtWork
    /\ gui' = [gui EXCEPT !.worker = "started", !.report = "", !.pending = FALSE]
    /\ proc' = ProcIdle
    /\ progress' = <<>>
    /\ GuiStep("start_processing_thread")
    /\ UNCHANGED upd

\* the button Cancel
CancelProcessing ==
    /\ gui.main = "idle"
    /\ gui' = [gui EXCEPT !.cancel_flag = TRUE,
                          !.pending = @ \/ WorkerAtWork]
    /\ GuiStep("cancel_processing")
    /\ UNCHANGED <<upd, proc, progress>>

\* run_processing up to "Reset cancel flag": with update_db_var set it calls
\* run_db_update(force) first
RunProcessing ==
    /\ gui.worker = "started"
    /\ \E update_db_var, force_update_var \in BOOLEAN :
         IF update_db_var
           THEN /\ gui.main = "idle"
                /\ RunDbUpdate(force_update_var)
                /\ gui' = [gui EXCEPT !.worker = "db_update"]
           ELSE /\ upd' = upd
                /\ gui' = [gui EXCEPT !.worker = "reset"]
    /\ GuiStep("run_processing")
    /\ UNCHANGED <<proc, progress>>

\* self.cancel_flag = False, once run_db_update has returned
ResetCancelFlag ==
    /\ \/ gui.worker = "reset"
       \/ gui.worker = "db_update" /\ upd.pc = "idle"
    /\ gui' = [gui EXCEPT !.cancel_flag = FALSE, !.worker = "processing"]
    /\ GuiStep("reset_cancel_flag")
    /\ UNCHANGED <<upd, proc, progress>>

\* the worker inside process_and_update_csv; cancel_check reads cancel_flag
WorkerProcessStart == gui.worker = "processing" /\ ProcessStart

WorkerProcessRow ==
    /\ gui.worker = "processing"
    /\ ProcessRow(gui.cancel_flag, RefreshEpssResponses, RefreshNvdResponses,
                  {NoFault})

WorkerProcessEnd == gui.worker = "processing" /\ ProcessEnd

\* run_processing after process_and_update_csv: the error box, or the test
\* of cancel_flag and one of the two messages
ReportOutcome ==
    /\ gui.worker = "processing"
    /\ proc.pc \in {"returned", "raised"}
    /\ gui' = [gui EXCEPT
                 !.worker = "done",
                 !.report = IF proc.pc = "raised" THEN "error"
                            ELSE IF gui.cancel_flag THEN "cancelled"
                            ELSE "completed"]
    /\ GuiStep("report_outcome")
    /\ UNCHANGED <<upd, proc, progress>>

\* the buttons Update Database and Force Update Database: run_db_update on
\* the thread of the window
PressDbUpdate(force) ==
    /\ gui.main = "idle"
    /\ gui.worker # "db_update"
    /\ RunDbUpdate(force)
    /\ gui' = [gui EXCEPT !.main = "db_update"]
    /\ GuiStep("run_db_update")
    /\ UNCHANGED <<proc, progress>>

\* run_db_update returns to the window
DbUpdateReturns ==
    /\ gui.main = "db_update"
    /\ upd.pc = "idle"
    /\ gui' = [gui EXCEPT !.main = "idle"]
    /\ GuiStep("run_db_update_returns")
    /\ UNCHANGED <<upd, proc, progress>>

NextGui ==
    \/ StartProcessingThread
    \/ CancelProcessing
    \/ RunProcessing
    \/ ResetCancelFlag
    \/ WorkerProcessStart
    \/ WorkerProcessRow
    \/ WorkerProcessEnd
    \/ ReportOutcome
    \/ \E force \in BOOLEAN : PressDbUpdate(force)
    \/ DbUpdateReturns
    \/ UpdateDbRow(RefreshEpssResponses, RefreshNvdResponses)
    \/ UpdateDbEnd

SpecGui == InitGui /\ [][NextGui]_vars

\* ------------------------------------------------------------------------
\* Vocabulary of the properties
\* ------------------------------------------------------------------------
\* the text ts is the timestamp of an instant less than CACHE_EXPIRY_DAYS
\* days before clk
Fresh(ts, clk) ==
    \E t \in 0..clk : ts = <<"iso", t>> /\ clk - t < CACHE_EXPIRY_DAYS

\* the positions of cs that are requests to url, and those that are sleeps
Gets(cs, url) == {i \in 1..Len(cs) : cs[i].call = "get" /\ cs[i].url = url}
Sleeps(cs) == {i \in 1..Len(cs) : cs[i].call = "sleep"}

\* the rows of cve_id in a table
RowsOf(table, cve_id) == {r \in table : r.cve_id = cve_id}

\* the text ts is the timestamp of an instant CACHE_EXPIRY_DAYS days or
\* more before clk
Stale(ts, clk) ==
    \E t \in 0..clk : ts = <<"iso", t>> /\ clk - t >= CACHE_EXPIRY_DAYS

\* the key file holds the encoding of a non-empty key
HasCredential ==
    \E input \in KeyInputs :
        /\ strip(input) # <<>>
        /\ keyFile = Some(b64encode(encode(strip(input))))

Logged(tag) == \E i \in 1..Len(logs) : logs[i][1] = tag

\* ------------------------------------------------------------------------
\* C1: a metric whose cache row is valid when lookup_cve starts is served
\* from the cache: the lookup makes no request for it (and, for CVSS, no
\* rate-limit sleep), returns the cached value, and leaves the row as it was.
\* ------------------------------------------------------------------------
C1_ValidEntryServedFromCache ==
    [][op'.name = "lookup_cve" =>
        LET cve_id == op'.cve_id[1]
        IN /\ \A r \in RowsOf(db.epss_cache, cve_id) :
                Fresh(r.last_updated, now) =>
                    /\ Gets(calls', EPSS_URL) = {}
                    /\ ret'[1].epss = r.epss
                    /\ RowsOf(db'.epss_cache, cve_id) = {r}
           /\ \A r \in RowsOf(db.cvss_cache, cve_id) :
                Fresh(r.last_updated, now) =>
                    /\ Gets(calls', NVD_URL) = {}
                    /\ Sleeps(calls') = {}
                    /\ ret'[1].cvss = r.cvss
                    /\ RowsOf(db'.cvss_cache, cve_id) = {r}]_vars

\* a lookup has served both metrics from rows written on an earlier day
C1_Witness ==
    /\ op.name = "lookup_cve"
    /\ Logged("[CACHE] EPSS hit") /\ Logged("[CACHE] CVSS hit")
    /\ calls = <<>>
    /\ ret[1].epss # None /\ ret[1].cvss # None
    /\ \A r \in db.epss_cache \cup db.cvss_cache : r.last_updated # isoformat(now)

\* ------------------------------------------------------------------------
\* C2 as stated: a lookup of an identifier whose cache row of a metric is
\* stale requests that metric from its service exactly once, whatever the
\* state of the key file.
\* ------------------------------------------------------------------------
C2_StaleEntryFetchedOnce ==
    [][op'.name = "lookup_cve" =>
        LET cve_id == op'.cve_id[1]
        IN /\ \A r \in RowsOf(db.epss_cache, cve_id) :
                Stale(r.last_updated, now) =>
                    Cardinality(Gets(calls', EPSS_URL)) = 1
           /\ \A r \in RowsOf(db.cvss_cache, cve_id) :
                Stale(r.last_updated, now) =>
                    Cardinality(Gets(calls', NVD_URL)) = 1]_vars

\* C2 as amended: a stale EPSS row is requested exactly once; a stale CVSS
\* row is requested exactly once when the key file yields a key, and not at
\* all when it yields none.
C2_StaleEntryFetchedOncePerCredential ==
    [][op'.name = "lookup_cve" =>
        LET cve_id == op'.cve_id[1]
        IN /\ \A r \in RowsOf(db.epss_cache, cve_id) :
                Stale(r.last_updated, now) =>
                    Cardinality(Gets(calls', EPSS_URL)) = 1
           /\ \A r \in RowsOf(db.cvss_cache, cve_id) :
                Stale(r.last_updated, now) =>
                    Cardinality(Gets(calls', NVD_URL))
                        = (IF HasCredential THEN 1 ELSE 0)]_vars

\* a lookup has found both rows expired and has requested each metric once
C2_Witness ==
    /\ op.name = "lookup_cve"
    /\ Logged("[CACHE] EPSS expired") /\ Logged("[CACHE] CVSS expired")
    /\ Cardinality(Gets(calls, EPSS_URL)) = 1
    /\ Cardinality(Gets(calls, NVD_URL)) = 1
    /\ Len(calls) = 3

\* ------------------------------------------------------------------------
\* C5: when a lookup has fetched a value of a metric (0 included), the
\* lookup of the same identifier that follows it at once finds the row
\* valid, returns the same value and makes no request for that metric.
\* ------------------------------------------------------------------------
C5_FetchedValueReadBack ==
    [][(op.name = "lookup_cve" /\ op'.name = "lookup_cve"
            /\ op'.cve_id = op.cve_id) =>
        /\ (Gets(calls, EPSS_URL) # {} /\ ret[1].epss # None) =>
              /\ Gets(calls', EPSS_URL) = {}
              /\ ret'[1].epss = ret[1].epss
              /\ \E i \in 1..Len(logs') : logs'[i][1] = "[CACHE] EPSS hit"
        /\ (Gets(calls, NVD_URL) # {} /\ ret[1].cvss # None) =>
              /\ Gets(calls', NVD_URL) = {}
              /\ ret'[1].cvss = ret[1].cvss
              /\ \E i \in 1..Len(logs') : logs'[i][1] = "[CACHE] CVSS hit"]_vars

\* a lookup has read back, with no request, two scores of 0 that were
\* written at the present instant
C5_Witness ==
    /\ op.name = "lookup_cve"
    /\ Logged("[CACHE] EPSS hit") /\ Logged("[CACHE] CVSS hit")
    /\ calls = <<>>
    /\ ret[1].epss = Some(0) /\ ret[1].cvss = Some(0)
    /\ \A r \in db.epss_cache \cup db.cvss_cache : r.last_updated = isoformat(now)

\* ------------------------------------------------------------------------
\* C3 as stated: update_db(force=True) issues a request for every identifier
\* it read from cvss_cache, valid or not, and a CVSS fetch that succeeds
\* renews the timestamp of the row.
\* ------------------------------------------------------------------------
C3_ForceRefetchesEveryIdentifier ==
    [][(op'.name = "update_db_row" /\ upd.force) =>
        LET cve_id == upd.rows[upd.i][1]
        IN /\ \E i \in 1..Len(calls') :
                calls'[i].call = "get" /\ calls'[i].cve_id = cve_id
           /\ (Gets(calls', NVD_URL) # {} /\ ret'[1].cvss # None) =>
                \A r \in RowsOf(db'.cvss_cache, cve_id) :
                    r.last_updated = isoformat(now)]_vars

\* ------------------------------------------------------------------------
\* C4: update_db(force=False) looks up exactly the identifiers whose
\* cvss_cache row is stale when the call starts: a valid one gets no lookup
\* and no request and keeps all its rows; a stale one gets one lookup.  The
\* rows read list no identifier twice, the loop takes them one by one to the
\* last, and a lookup touches the rows of no other identifier.
\* ------------------------------------------------------------------------
C4_UnforcedRefreshOnlyStale ==
    /\ [][(op'.name = "update_db_row" /\ ~upd.force) =>
            LET cve_id == upd.rows[upd.i][1]
                last_updated == upd.rows[upd.i][2]
            IN /\ Fresh(last_updated, now) =>
                    ~op'.lookup /\ calls' = <<>> /\ db' = db
               /\ Stale(last_updated, now) => op'.lookup /\ ret' # None
               /\ upd'.i = upd.i + 1
               /\ \A other \in Ids \ {cve_id} :
                    /\ RowsOf(db'.epss_cache, other) = RowsOf(db.epss_cache, other)
                    /\ RowsOf(db'.cvss_cache, other) = RowsOf(db.cvss_cache, other)
                    /\ RowsOf(db'.epss_detail, other) = RowsOf(db.epss_detail, other)
                    /\ RowsOf(db'.cve_detail, other) = RowsOf(db.cve_detail, other)]_vars
    /\ [][op'.name = "update_db_end" => upd.i = Len(upd.rows) + 1]_vars
    /\ [](upd.pc = "loop" =>
            \A i, j \in 1..Len(upd.rows) :
                upd.rows[i][1] = upd.rows[j][1] => i = j)

\* an unforced refresh has looked up a stale first row and has then skipped
\* a valid second row
C4_Witness ==
    /\ upd.pc = "loop" /\ ~upd.force
    /\ Len(upd.rows) = 2 /\ upd.i = 3
    /\ Stale(upd.rows[1][2], now)
    /\ Fresh(upd.rows[2][2], now)
    /\ op.name = "update_db_row" /\ ~op.lookup
    /\ \E r \in RowsOf(db.cvss_cache, upd.rows[1][1]) :
          r.last_updated = isoformat(now)

\* ------------------------------------------------------------------------
\* Vocabulary of the properties of the pipeline
\* ------------------------------------------------------------------------
\* the header the output file must have for the table being processed
ExpectedHeader ==
    inFile[1].fieldnames \o <<<<"e", "p", "s", "s">>, <<"c", "v", "s", "s">>>>

\* the cell is absent, empty, or made of white space only
BlankCell(cell) == cell = None \/ \A k \in 1..Len(cell[1]) : cell[1][k] = " "

\* the name is the expected label, whatever the case of its letters
IsCveIdLabel(name) ==
    /\ Len(name) = 5
    /\ \A k \in 1..5 :
          name[k] \in {<<"C", "V", "E", "I", "D">>[k], <<"c", "v", "e", "i", "d">>[k]}

\* the CSV texts of the two new columns of the row processed last, which is
\* the last of the buffer, or the last of the file after a flush
LastOutput(p, f) ==
    IF p.batch_buffer # <<>>
      THEN <<CsvText(p.batch_buffer[Len(p.batch_buffer)].epss),
             CsvText(p.batch_buffer[Len(p.batch_buffer)].cvss)>>
      ELSE <<f[1].rows[Len(f[1].rows)].epss, f[1].rows[Len(f[1].rows)].cvss>>

\* the identifier cell of the row the loop is at
CurrentCell == proc.rows[proc.i].dict[proc.cve_column[1]]

\* ------------------------------------------------------------------------
\* C6: when the cancellation poll returns true after N rows, the run stops
\* there: the step of the cancellation processes no row and writes nothing,
\* no step follows it, and the output file holds the header followed by the
\* rows of the completed batches of 100 among the first N, in input order.
\* ------------------------------------------------------------------------
C6_CancelLeavesCompletedBatches ==
    /\ [](proc.pc = "returned" /\ proc.result = "None" =>
            /\ outFile # None
            /\ outFile[1].fieldnames = ExpectedHeader
            /\ proc.processed < proc.total_rows
            /\ Len(outFile[1].rows) = (proc.processed \div 100) * 100
            /\ \A k \in 1..Len(outFile[1].rows) :
                  /\ outFile[1].rows[k].line = k
                  /\ outFile[1].rows[k].dict = inFile[1].rows[k].dict)
    /\ [][op'.name = "process_cancel" =>
            /\ proc'.processed = proc.processed
            /\ outFile' = outFile
            /\ progress' = progress
            /\ calls' = <<>> /\ db' = db]_vars
    /\ [][proc.pc = "returned" => FALSE]_vars

\* a run was cancelled in the middle of its second batch: 100 rows are in
\* the file and the rows of the open batch are not
C6_Witness ==
    /\ proc.pc = "returned" /\ proc.result = "None"
    /\ proc.processed > 100
    /\ proc.batch_buffer # <<>>
    /\ Len(outFile[1].rows) = 100

\* ------------------------------------------------------------------------
\* C7: a row whose identifier cell is blank gets "Missing" in both new
\* columns; lookup_cve is not called, no request is made and the cache is
\* left as it was.
\* ------------------------------------------------------------------------
C7_BlankCellIsMissing ==
    [][(op'.name = "process_row" /\ BlankCell(CurrentCell)) =>
        /\ LastOutput(proc', outFile') = <<"Missing", "Missing">>
        /\ ~op'.lookup
        /\ ret' = None
        /\ conn' = "none"
        /\ resp' = NoAnswers
        /\ calls' = <<>>
        /\ db' = db]_vars

\* a row with a cell of white space has been given "Missing" twice
C7_Witness ==
    /\ op.name = "process_row"
    /\ op.cve_id = Some(<<" ">>)
    /\ proc.processed = 2
    /\ LastOutput(proc, outFile) = <<"Missing", "Missing">>

C9_ColumnsHoldReturnedValues ==
    [][(op'.name = "process_row" /\ op'.lookup /\ ret' # None) =>
        LastOutput(proc', outFile') =
            << IF ret'[1].epss # None THEN FloatText(ret'[1].epss[1])
                                      ELSE "Not Found",
               IF ret'[1].cvss # None THEN FloatText(ret'[1].cvss[1])
                                      ELSE "Not Found" >>]_vars

\* ------------------------------------------------------------------------
\* C10: a table with rows but with no column named CVEID in any case makes
\* the run raise KeyError before the loop: no row is processed, no lookup
\* and no progress call is made, and the output file is neither created
\* nor truncated.
\* ------------------------------------------------------------------------
C10_NoCveColumnAborts ==
    /\ [][(/\ op'.name = "process_and_update_csv"
            /\ inFile # None
            /\ inFile[1].rows # <<>>
            /\ \A k \in 1..Len(inFile[1].fieldnames) :
                  ~IsCveIdLabel(inFile[1].fieldnames[k])) =>
            /\ proc'.pc = "raised" /\ proc'.result = "KeyError"
            /\ proc'.processed = 0
            /\ outFile' = outFile
            /\ progress' = <<>>
            /\ calls' = <<>> /\ ret' = None /\ db' = db]_vars
    /\ [][proc.pc = "raised" => FALSE]_vars

\* the run has raised KeyError and the file of an earlier run is untouched
C10_Witness ==
    /\ proc.pc = "raised" /\ proc.result = "KeyError"
    /\ outFile = OldOutFile
    /\ progress = <<>>

C12_NoCredentialSkipsSeverityFetch ==
    [][(/\ op'.name = "lookup_cve"
        /\ \A r \in RowsOf(db.cvss_cache, op'.cve_id[1]) :
              ~Fresh(r.last_updated, now)
        /\ ~HasCredential) =>
        LET cve_id == op'.cve_id[1]
            valid == {r \in RowsOf(db.epss_cache, cve_id) : Fresh(r.last_updated, now)}
        IN /\ Gets(calls', NVD_URL) = {}
           /\ Sleeps(calls') = {}
           /\ resp'.nvd = None
           /\ ret' # None
           /\ ret'[1].cvss = None
           /\ db'.cvss_cache = db.cvss_cache
           /\ db'.cve_detail = db.cve_detail
           /\ conn' = "closed"
           /\ IF valid # {}
                THEN /\ \A r \in valid : ret'[1].epss = r.epss
                     /\ calls' = <<>>
                ELSE /\ Len(calls') = 1
                     /\ Cardinality(Gets(calls', EPSS_URL)) = 1
                     /\ ret'[1].epss = fetch_epss(cve_id, resp'.epss[1]).epss
                     /\ ret'[1].epss # None =>
                          \E r \in RowsOf(db'.epss_cache, cve_id) :
                              /\ r.epss = ret'[1].epss
                              /\ r.last_updated = isoformat(now)]_vars

\* a lookup has found the CVSS row expired and the key file emptied: it has
\* logged the missing key, fetched and stored the EPSS score, and left the
\* expired CVSS row in place
C12_Witness ==
    /\ op.name = "lookup_cve"
    /\ keyFile = Some(<<>>)
    /\ Logged("[CACHE] CVSS expired")
    /\ Logged("[NVD] Missing API Key. Cannot fetch CVSS.")
    /\ Len(calls) = 1 /\ Gets(calls, EPSS_URL) = {1}
    /\ ret # None /\ ret[1].epss = Some(5) /\ ret[1].cvss = None
    /\ \E r \in db.cvss_cache : Stale(r.last_updated, now)
    /\ \E r \in db.epss_cache : r.last_updated = isoformat(now)

\* ------------------------------------------------------------------------
\* C13: in one lookup each metric goes its own way.  With no valid CVSS row
\* and a key, the NVD service is asked exactly once, its score is returned,
\* and a score that is present is stored with the timestamp of the lookup,
\* whatever the EPSS half did (a valid row, a miss, no record, a failed or
\* unparsable answer).  With no valid EPSS row, the EPSS service is asked
\* exactly once, its score is returned, and a score that is present is
\* stored with the timestamp of the lookup and stays stored, whatever the
\* CVSS half does after it.  A half that yields no score leaves its own
\* cache table as it was.
\* ------------------------------------------------------------------------
C13_MetricsResolvedIndependently ==
    [][op'.name = "lookup_cve" =>
        LET cve_id == op'.cve_id[1]
            validE == {r \in RowsOf(db.epss_cache, cve_id) : Fresh(r.last_updated, now)}
            validC == {r \in RowsOf(db.cvss_cache, cve_id) : Fresh(r.last_updated, now)}
        IN /\ ret' # None
           /\ (validC = {} /\ HasCredential) =>
                /\ Cardinality(Gets(calls', NVD_URL)) = 1
                /\ resp'.nvd # None
                /\ LET out == fetch_cvss(cve_id, get_nvd_api_key(keyFile),
                                         resp'.nvd[1])
                   IN /\ ret'[1].cvss = out.cvss
                      /\ IF out.cvss # None
                           THEN RowsOf(db'.cvss_cache, cve_id) =
                                  {[cve_id |-> cve_id, cvss |-> out.cvss,
                                    vector |-> out.vector,
                                    last_updated |-> isoformat(now)]}
                           ELSE RowsOf(db'.cvss_cache, cve_id) =
                                  RowsOf(db.cvss_cache, cve_id)
           /\ validE = {} =>
                /\ Cardinality(Gets(calls', EPSS_URL)) = 1
                /\ resp'.epss # None
                /\ LET out == fetch_epss(cve_id, resp'.epss[1])
                   IN /\ ret'[1].epss = out.epss
                      /\ IF out.epss # None
                           THEN RowsOf(db'.epss_cache, cve_id) =
                                  {[cve_id |-> cve_id, epss |-> out.epss,
                                    last_updated |-> isoformat(now)]}
                           ELSE RowsOf(db'.epss_cache, cve_id) =
                                  RowsOf(db.epss_cache, cve_id)]_vars

\* a lookup whose EPSS request failed has gone on to fetch the CVSS score
\* and to store it
C13_Witness ==
    /\ op.name = "lookup_cve"
    /\ resp.epss # None /\ ~resp.epss[1].ok
    /\ ret # None /\ ret[1].epss = None /\ ret[1].cvss = Some(75)
    /\ db.epss_cache = {}
    /\ \E r \in db.cvss_cache :
          r.cvss = Some(75) /\ r.last_updated = isoformat(now)
    /\ Gets(calls, EPSS_URL) = {1} /\ Gets(calls, NVD_URL) = {3}

\* ------------------------------------------------------------------------
\* C14: is_cache_valid(t) is TRUE exactly when t is the ISO text of an
\* instant and the clock is less than 15 days past that instant: at 15 days
\* or more it is FALSE, and for a NULL column or a text that is no timestamp
\* it is FALSE as well; in every case the call returns a value.
\* ------------------------------------------------------------------------
C14_ValidIffParsesAndYoungerThan15Days ==
    op.name = "is_cache_valid" =>
        \A r \in db.cvss_cache :
            /\ ret # None
            /\ ret[1] \in BOOLEAN
            /\ ret[1] = (\E t \in 0..MaxTime :
                            /\ r.last_updated = <<"iso", t>>
                            /\ now - t < 15)

\* the timestamp of a row that is exactly 15 days old has been found invalid
C14_Witness ==
    /\ op.name = "is_cache_valid"
    /\ ret = Some(FALSE)
    /\ \E r \in db.cvss_cache : r.last_updated = <<"iso", now - 15>>

\* ------------------------------------------------------------------------
\* C15: in every step, each request to the NVD service comes right after a
\* sleep of RATE_LIMIT_SLEEP, each sleep is right before a request to the
\* NVD service, and no two sleeps follow one another.  A lookup that must
\* fetch CVSS and has a key sleeps exactly once, also when the step before
\* it made a request to the NVD service on the same day; a lookup that finds
\* a valid CVSS row, or has no key, does not sleep, nor does a request to
\* the EPSS service bring a sleep.
\* ------------------------------------------------------------------------
C15_SleepBeforeEverySeverityRequest ==
    /\ [](/\ \A i \in Gets(calls, NVD_URL) :
               /\ i > 1
               /\ calls[i - 1].call = "sleep"
               /\ calls[i - 1].tenths = 16
          /\ \A i \in Sleeps(calls) :
               /\ i < Len(calls)
               /\ i + 1 \in Gets(calls, NVD_URL)
          /\ \A i \in Gets(calls, EPSS_URL) :
               i = 1 \/ calls[i - 1].call # "sleep")
    /\ [][op'.name = "lookup_cve" =>
            LET validC == {r \in RowsOf(db.cvss_cache, op'.cve_id[1]) :
                              Fresh(r.last_updated, now)}
            IN Cardinality(Sleeps(calls')) =
                  (IF validC = {} /\ HasCredential THEN 1 ELSE 0)]_vars

\* a lookup has slept once before its request to the NVD service, and the
\* request got no score, so that the next lookup will sleep again
C15_Witness ==
    /\ op.name = "lookup_cve"
    /\ Len(calls) = 3
    /\ calls[1].call = "get" /\ calls[1].url = EPSS_URL
    /\ calls[2] = SleepCall
    /\ calls[3].call = "get" /\ calls[3].url = NVD_URL
    /\ ret # None /\ ret[1].cvss = None

\* ------------------------------------------------------------------------
\* C16: cancel_check() is called once at the top of each iteration and
\* nowhere else: while the loop runs it has been called once per row done,
\* and a cancelled run has called it once more.  A step that takes a row
\* takes it to its end: the row is counted, its two columns are set, it is
\* in the buffer or in the file, and progress is reported.  The step of a
\* true poll makes no lookup, no progress call and no write, and no step of
\* the run follows it.
\* ------------------------------------------------------------------------
C16_CancelPolledOncePerRowAtTop ==
    /\ [](proc.pc = "loop" => proc.polls = proc.processed)
    /\ [](proc.pc = "returned" =>
            IF proc.result = "None"
              THEN proc.polls = proc.processed + 1
              ELSE proc.polls = proc.processed /\ proc.processed = proc.total_rows)
    /\ [][op'.name = "process_row" =>
            /\ proc'.polls = proc.polls + 1
            /\ proc'.processed = proc.processed + 1
            /\ proc'.pc = "loop"
            /\ Len(outFile'[1].rows) + Len(proc'.batch_buffer) = proc'.processed
            /\ LastOutput(proc', outFile')[1] \in
                  {"Missing", "Not Found", "Error", "0.5", "7.5"}
            /\ LastOutput(proc', outFile')[2] \in
                  {"Missing", "Not Found", "Error", "0.5", "7.5"}
            /\ Len(progress') = Len(progress) + 1]_vars
    /\ [][op'.name = "process_cancel" =>
            /\ proc'.polls = proc.polls + 1
            /\ proc'.processed = proc.processed
            /\ proc'.batch_buffer = proc.batch_buffer
            /\ calls' = <<>> /\ ret' = None /\ conn' = "none" /\ resp' = NoAnswers
            /\ db' = db
            /\ progress' = progress
            /\ outFile' = outFile]_vars
    /\ [][op.name = "process_cancel" => FALSE]_vars

\* the second poll of a run returned true after the lookup of the first row
\* had fetched and set both scores
C16_Witness ==
    /\ op.name = "process_cancel"
    /\ proc.polls = 2 /\ proc.processed = 1
    /\ Len(progress) = 1
    /\ Len(proc.batch_buffer) = 1
    /\ proc.batch_buffer[1].epss = <<"float", 5>>
    /\ proc.batch_buffer[1].cvss = <<"float", 75>>
    /\ outFile[1].rows = <<>>

\* ------------------------------------------------------------------------
\* C17: the output file has the header of the input followed by "epss" and
\* "cvss" from the moment it is opened.  After every iteration the buffer
\* holds fewer than 100 rows, the file holds a whole number of batches of
\* 100, and the rows of the file and of the buffer together are the rows
\* processed.  The end of the loop appends the rows left in the buffer, and
\* a run that returns its path has written, for a table of n >= 1 rows,
\* exactly the n rows of the input in their order, each with its two new
\* columns.
\* ------------------------------------------------------------------------
C17_AllRowsWrittenInBatchesOf100 ==
    /\ [](proc.pc = "loop" =>
            /\ outFile[1].fieldnames = ExpectedHeader
            /\ Len(proc.batch_buffer) < 100
            /\ Len(outFile[1].rows) % 100 = 0
            /\ Len(outFile[1].rows) + Len(proc.batch_buffer) = proc.processed
            /\ \A k \in 1..Len(proc.batch_buffer) :
                  proc.batch_buffer[k].line = Len(outFile[1].rows) + k)
    /\ [][op'.name = "process_end" =>
            /\ proc.processed = proc.total_rows
            /\ Len(outFile'[1].rows) = Len(outFile[1].rows) + Len(proc.batch_buffer)
            /\ SubSeq(outFile'[1].rows, 1, Len(outFile[1].rows)) = outFile[1].rows]_vars
    /\ [](proc.pc = "returned" /\ proc.result = "output_file" =>
            /\ Len(inFile[1].rows) >= 1
            /\ outFile[1].fieldnames = ExpectedHeader
            /\ Len(outFile[1].rows) = Len(inFile[1].rows)
            /\ \A k \in 1..Len(outFile[1].rows) :
                  /\ outFile[1].rows[k].line = k
                  /\ outFile[1].rows[k].dict = inFile[1].rows[k].dict
                  /\ outFile[1].rows[k].epss \in
                        {"Missing", "Not Found", "Error", "0.5", "7.5"}
                  /\ outFile[1].rows[k].cvss \in
                        {"Missing", "Not Found", "Error", "0.5", "7.5"})

\* a run over 201 rows has returned its path: two batches of 100 were
\* flushed in the loop and the last row at its end
C17_Witness ==
    /\ proc.pc = "returned" /\ proc.result = "output_file"
    /\ op.name = "process_end"
    /\ proc.total_rows = 201
    /\ Len(proc.batch_buffer) = 1
    /\ Len(outFile[1].rows) = 201

\* ------------------------------------------------------------------------
\* C18: progress_callback is called once at the end of each iteration that
\* takes a row, after the lookup of the row, with the count of rows done
\* and the length of the table: the calls made so far are (1, n), (2, n),
\* ..., one per row processed.  A run that returns its path has ended with
\* the call (n, n); a run cancelled after N rows has made exactly N calls.
\* ------------------------------------------------------------------------
C18_ProgressAfterEveryRow ==
    /\ [](proc.pc \in {"loop", "returned"} =>
            /\ Len(progress) = proc.processed
            /\ \A k \in 1..Len(progress) : progress[k] = <<k, Len(inFile[1].rows)>>)
    /\ [][op'.name = "process_row" =>
            /\ progress' = Append(progress, <<proc.processed + 1, proc.total_rows>>)
            /\ op'.lookup => conn' \in {"closed", "open"}]_vars
    /\ [][op'.name \in {"process_cancel", "process_end"} =>
            progress' = progress]_vars
    /\ [](proc.pc = "returned" /\ proc.result = "output_file" =>
            /\ progress # <<>>
            /\ progress[Len(progress)] = <<proc.total_rows, proc.total_rows>>)

\* a run over 101 rows has returned its path after 101 calls, the last of
\* them (101, 101)
C18_Witness ==
    /\ proc.pc = "returned" /\ proc.result = "output_file"
    /\ proc.total_rows = 101
    /\ Len(progress) = 101
    /\ progress[1] = <<1, 101>>
    /\ progress[101] = <<101, 101>>

\* ------------------------------------------------------------------------
\* C19 as stated: whatever the storage does, a lookup returns a value and
\* closes its connection; each metric is either served from a valid row or
\* requested from its service (CVSS when there is a key), so that a failed
\* read counts as a miss; and a score that was fetched is returned even
\* when its write fails.
\* ------------------------------------------------------------------------
C19_CacheFailuresAbsorbed ==
    [][op'.name = "lookup_cve" =>
        LET cve_id == op'.cve_id[1]
            validE == {r \in RowsOf(db.epss_cache, cve_id) : Fresh(r.last_updated, now)}
            validC == {r \in RowsOf(db.cvss_cache, cve_id) : Fresh(r.last_updated, now)}
        IN /\ ret' # None
           /\ conn' = "closed"
           /\ \/ Gets(calls', EPSS_URL) # {}
              \/ \E r \in validE : ret'[1].epss = r.epss
           /\ \/ Gets(calls', NVD_URL) # {}
              \/ \E r \in validC : ret'[1].cvss = r.cvss
              \/ ~HasCredential
           /\ resp'.epss # None =>
                ret'[1].epss = fetch_epss(cve_id, resp'.epss[1]).epss
           /\ resp'.nvd # None =>
                ret'[1].cvss = fetch_cvss(cve_id, get_nvd_api_key(keyFile),
                                          resp'.nvd[1]).cvss]_vars

\* ------------------------------------------------------------------------
\* Vocabulary of the properties of fetch_cvss
\* ------------------------------------------------------------------------
\* the three scheme keys of a "metrics" object, the highest priority first
SchemesByPriority(metrics) ==
    <<metrics.cvssMetricV31, metrics.cvssMetricV30, metrics.cvssMetricV2>>

AllAbsent == [cvss |-> None, vector |-> None, raw |-> None]

\* ------------------------------------------------------------------------
\* C20: fetch_cvss always returns.  For an answer with a record, the score
\* and the vector are those of the first metric object under the first key
\* present among cvssMetricV31, cvssMetricV30, cvssMetricV2, together with
\* the payload; a key of lower priority is never used when a key of higher
\* priority is present, not even when the list under that key is empty or
\* starts with a malformed object: then, as for a failed request, an answer
\* that does not parse, or an answer with no record, all three outputs are
\* None.  With none of the three keys, score and vector are None.
\* ------------------------------------------------------------------------
C20_SchemePriorityAndSilentFailure ==
    op.name = "fetch_cvss" =>
        /\ ret # None
        /\ LET a == resp.nvd[1]
               out == ret[1]
           IN IF a.ok /\ a.has_vulns /\ Len(a.vulns) > 0
                THEN LET s == SchemesByPriority(a.vulns[1].metrics)
                         present == {k \in 1..3 : s[k] # None}
                     IN IF present = {}
                          THEN out.cvss = None /\ out.vector = None
                          ELSE LET top == CHOOSE k \in present :
                                              \A j \in present : k <= j
                                   list == s[top][1]
                               IN IF Len(list) > 0 /\ list[1].cvssData # None
                                    THEN out =
                                      [cvss |-> Some(list[1].cvssData[1].baseScore),
                                       vector |-> Some(list[1].cvssData[1].vectorString),
                                       raw |-> Some(a)]
                                    ELSE out = AllAbsent
                ELSE out = AllAbsent

\* an answer without the key cvssMetricV31 and with well-formed objects
\* under both other keys has given the score and the vector of scheme 3.0
C20_Witness ==
    /\ op.name = "fetch_cvss"
    /\ resp.nvd # None
    /\ resp.nvd[1].ok /\ Len(resp.nvd[1].vulns) = 1
    /\ resp.nvd[1].vulns[1].metrics =
          Metrics(None, Some(<<Metric(75, "CVSS:3.0")>>), Some(<<Metric(50, "AV:N")>>))
    /\ ret = Some([cvss |-> Some(75), vector |-> Some("CVSS:3.0"),
                   raw |-> resp.nvd])

\* ------------------------------------------------------------------------
\* Vocabulary of C21
\* ------------------------------------------------------------------------
\* the non-empty keys of at most MaxKeyLen characters
AllKeys ==
    UNION {[1..n -> {KeyChars[j] : j \in 1..Len(KeyChars)}] : n \in 1..MaxKeyLen}

\* what prompt_and_store_nvd_key writes for these keys
KeyEncodings == {b64encode(encode(key)) : key \in AllKeys}

\* the base64 characters and "=" of a file, without the bytes base64 text
\* does not have
Payload(content) == SelectSeq(content, LAMBDA c : c <= Pad)

\* no key can be had from the file: there is none, it cannot be opened, or
\* its base64 characters are not the encoding of any key
CredentialAbsent ==
    \/ keyFile = None
    \/ keyFile[1] = Unreadable
    \/ Payload(keyFile[1]) \notin KeyEncodings

\* no key: None, or the empty text that "not api_key" takes for none
NoKey(r) == r = None \/ r = Some(<<>>)

\* ------------------------------------------------------------------------
\* C21: the key that prompt_and_store_nvd_key stored and returned is the key
\* get_nvd_api_key reads from the file it wrote, at once and in the step
\* that follows.  When the file is missing, cannot be opened, or holds bytes
\* that are not the encoding of a key, get_nvd_api_key returns no key and a
\* lookup does what it does with no key file at all: the same requests,
\* tables, log lines and result.
\* ------------------------------------------------------------------------
C21_CredentialRoundTripAndCorruptIsAbsent ==
    [][/\ (op'.name = "prompt_and_store_nvd_key" /\ ret' # None) =>
            /\ ret'[1] # <<>>
            /\ keyFile' # None
            /\ get_nvd_api_key(keyFile') = ret'
       /\ (/\ op.name = "prompt_and_store_nvd_key" /\ ret # None
           /\ op'.name = "get_nvd_api_key") => ret' = ret
       /\ (op'.name = "get_nvd_api_key" /\ CredentialAbsent) => NoKey(ret')
       /\ (op'.name = "lookup_cve" /\ CredentialAbsent) =>
            /\ Gets(calls', NVD_URL) = {}
            /\ \E full \in BOOLEAN, epss_resp \in RefreshEpssResponses,
                  nvd_resp \in RefreshNvdResponses :
                 LET res == LookupCve(db, now, None, op'.cve_id[1], full,
                                      epss_resp, nvd_resp, NoFault)
                 IN /\ db' = res.db
                    /\ calls' = res.calls
                    /\ logs' = res.logs
                    /\ resp' = res.answers
                    /\ ret' = Some(res.ret)
                    /\ conn' = "closed"]_vars

\* the file written for the four-character key has lost its last byte, and
\* get_nvd_api_key has returned None for it
C21_Witness ==
    /\ op.name = "get_nvd_api_key"
    /\ keyFile # None
    /\ Len(keyFile[1]) = 7
    /\ keyFile[1] = SubSeq(b64encode(encode(<<"k", "e", "y", "s">>)), 1, 7)
    /\ ret = None

\* ------------------------------------------------------------------------
\* Vocabulary of C22
\* ------------------------------------------------------------------------
IdsOf(table) == {r.cve_id : r \in table}
OtherRows(table, cve_id) == {r \in table : r.cve_id # cve_id}

\* ------------------------------------------------------------------------
\* C22: a lookup removes no identifier from any of the four tables and
\* leaves the rows of the other identifiers as they were.  When the fetch
\* of a metric yields no score (the service failed or had no record), and
\* when no fetch is made (a valid row, or no key for CVSS), the cache table
\* and the detail table of that metric are what they were; a metric whose
\* fetch yielded no score, or whose fetch was skipped for want of a key, is
\* returned absent, whatever the expired row holds.
\* ------------------------------------------------------------------------
C22_FailedOrSkippedFetchLeavesTables ==
    [][op'.lookup =>
        LET cve_id == op'.cve_id[1]
            noEpss == /\ resp'.epss # None
                      /\ fetch_epss(cve_id, resp'.epss[1]).epss = None
            noCvss == /\ resp'.nvd # None
                      /\ fetch_cvss(cve_id, get_nvd_api_key(keyFile),
                                    resp'.nvd[1]).cvss = None
            skipped == /\ resp'.nvd = None
                       /\ \A r \in RowsOf(db.cvss_cache, cve_id) :
                             ~Fresh(r.last_updated, now)
        IN /\ ret' # None
           /\ IdsOf(db.epss_cache) \subseteq IdsOf(db'.epss_cache)
           /\ IdsOf(db.epss_detail) \subseteq IdsOf(db'.epss_detail)
           /\ IdsOf(db.cvss_cache) \subseteq IdsOf(db'.cvss_cache)
           /\ IdsOf(db.cve_detail) \subseteq IdsOf(db'.cve_detail)
           /\ OtherRows(db'.epss_cache, cve_id) = OtherRows(db.epss_cache, cve_id)
           /\ OtherRows(db'.epss_detail, cve_id) = OtherRows(db.epss_detail, cve_id)
           /\ OtherRows(db'.cvss_cache, cve_id) = OtherRows(db.cvss_cache, cve_id)
           /\ OtherRows(db'.cve_detail, cve_id) = OtherRows(db.cve_detail, cve_id)
           /\ (noEpss \/ resp'.epss = None) =>
                /\ db'.epss_cache = db.epss_cache
                /\ db'.epss_detail = db.epss_detail
           /\ (noCvss \/ resp'.nvd = None) =>
                /\ db'.cvss_cache = db.cvss_cache
                /\ db'.cve_detail = db.cve_detail
           /\ noEpss => ret'[1].epss = None
           /\ (noCvss \/ skipped) => ret'[1].cvss = None]_vars

\* a lookup has found both rows of an identifier expired, the EPSS service
\* has failed and the key file is missing: both expired rows are in place
\* with their scores, and neither score has been returned
C22_Witness ==
    /\ op.lookup
    /\ keyFile = None
    /\ resp.epss # None /\ ~resp.epss[1].ok
    /\ resp.nvd = None
    /\ ret # None /\ ret[1].epss = None /\ ret[1].cvss = None
    /\ \E r \in RowsOf(db.epss_cache, op.cve_id[1]) :
          Stale(r.last_updated, now) /\ r.epss # None
    /\ \E r \in RowsOf(db.cvss_cache, op.cve_id[1]) :
          Stale(r.last_updated, now) /\ r.cvss # None
    /\ IdsOf(db.epss_cache) = Ids

\* ------------------------------------------------------------------------
\* C23: from the same tables, clock, key file and answers of the services,
\* lookup_cve(full=True) and lookup_cve(full=False) make the same requests
\* in the same order, write the same log lines, leave the same tables and
\* return the same two scores; the one that was called is one of the two.
\* The full result carries besides the identifier, the vector that goes
\* with the CVSS score (fetched, or of the valid row), and the payload of
\* each service that was asked in this call.
\* ------------------------------------------------------------------------
C23_FullAndPlainLookupsAgree ==
    [][op'.name = "lookup_cve" =>
        LET cve_id == op'.cve_id[1]
            validC == {r \in RowsOf(db.cvss_cache, cve_id) :
                          Fresh(r.last_updated, now)}
            \* the answers the call got; one that was not asked for is not
            \* looked at
            epss_resp == IF resp'.epss # None THEN resp'.epss[1]
                         ELSE EpssAnswer(FALSE, FALSE, <<>>)
            nvd_resp == IF resp'.nvd # None THEN resp'.nvd[1]
                        ELSE NvdAnswer(FALSE, FALSE, <<>>)
        IN \A f \in {LookupCve(db, now, keyFile, cve_id, TRUE,
                                epss_resp, nvd_resp, NoFault)},
              p \in {LookupCve(db, now, keyFile, cve_id, FALSE,
                                epss_resp, nvd_resp, NoFault)} :
                /\ f.db = p.db
                /\ f.calls = p.calls
                /\ f.logs = p.logs
                /\ f.answers = p.answers
                /\ f.raised = p.raised
                /\ f.closed = p.closed
                /\ f.ret.epss = p.ret.epss
                /\ f.ret.cvss = p.ret.cvss
                /\ db' = f.db
                /\ calls' = f.calls
                /\ logs' = f.logs
                /\ resp' = f.answers
                /\ ret' \in {Some(f.ret), Some(p.ret)}
                /\ ret'[1].full =>
                     /\ ret'[1].cve = Some(cve_id)
                     /\ ret'[1].epss_detail =
                          IF resp'.epss = None THEN None
                          ELSE fetch_epss(cve_id, resp'.epss[1]).raw
                     /\ ret'[1].cvss_detail =
                          IF resp'.nvd = None THEN None
                          ELSE fetch_cvss(cve_id, get_nvd_api_key(keyFile),
                                          resp'.nvd[1]).raw
                     /\ ret'[1].vector =
                          IF resp'.nvd # None
                            THEN fetch_cvss(cve_id, get_nvd_api_key(keyFile),
                                            resp'.nvd[1]).vector
                            ELSE IF validC = {} THEN None
                            ELSE (CHOOSE r \in validC : TRUE).vector]_vars

\* a full lookup has asked both services and returned the identifier, both
\* scores, the vector and both payloads
C23_Witness ==
    /\ op.name = "lookup_cve"
    /\ ret # None /\ ret[1].full
    /\ ret[1].cve = Some(<<"A">>)
    /\ ret[1].epss = Some(5) /\ ret[1].cvss = Some(75)
    /\ ret[1].vector = Some("AV:N")
    /\ resp.epss # None /\ ret[1].epss_detail = resp.epss
    /\ resp.nvd # None /\ ret[1].cvss_detail = resp.nvd
    /\ Len(calls) = 3

KeyedById(table) ==
    \A r1, r2 \in table : r1.cve_id = r2.cve_id => r1 = r2

\* every detail row has a cache row of its identifier, of the same instant
DetailWithin(detail, cache) ==
    \A d \in detail :
        /\ d.detail_json # None
        /\ IsIsoText(d.last_updated)
        /\ \E c \in cache :
              c.cve_id = d.cve_id /\ c.last_updated = d.last_updated

CacheWellFormed(d) ==
    /\ \A r \in d.epss_cache : r.epss # None /\ IsIsoText(r.last_updated)
    /\ \A r \in d.cvss_cache : r.cvss # None /\ IsIsoText(r.last_updated)
    /\ KeyedById(d.epss_cache) /\ KeyedById(d.cvss_cache)
    /\ KeyedById(d.epss_detail) /\ KeyedById(d.cve_detail)
    /\ DetailWithin(d.epss_detail, d.epss_cache)
    /\ DetailWithin(d.cve_detail, d.cvss_cache)

\* ------------------------------------------------------------------------
\* C28: from the empty store, after every step of lookups and refreshes:
\* each row of epss_cache and cvss_cache holds a score and a timestamp that
\* parses; no table has two rows of one identifier; each row of a detail
\* table has a row of its identifier in the cache table of its metric, with
\* the same timestamp.  A lookup writes the detail row of a metric exactly
\* when it writes the cache row of that metric: both or neither change, and
\* the detail row then holds the payload fetched in that lookup.
\* ------------------------------------------------------------------------
C28_CacheWellFormed ==
    [][/\ CacheWellFormed(db')
       /\ op'.lookup =>
            LET cve_id == op'.cve_id[1]
            IN /\ (RowsOf(db'.epss_cache, cve_id) # RowsOf(db.epss_cache, cve_id)
                      \/ RowsOf(db'.epss_detail, cve_id)
                           # RowsOf(db.epss_detail, cve_id)) =>
                     /\ resp'.epss # None
                     /\ RowsOf(db'.epss_cache, cve_id) =
                          {[cve_id |-> cve_id,
                            epss |-> fetch_epss(cve_id, resp'.epss[1]).epss,
                            last_updated |-> isoformat(now)]}
                     /\ RowsOf(db'.epss_detail, cve_id) =
                          {[cve_id |-> cve_id,
                            detail_json |-> PyStr(resp'.epss[1]),
                            last_updated |-> isoformat(now)]}
               /\ (RowsOf(db'.cvss_cache, cve_id) # RowsOf(db.cvss_cache, cve_id)
                      \/ RowsOf(db'.cve_detail, cve_id)
                           # RowsOf(db.cve_detail, cve_id)) =>
                     /\ resp'.nvd # None
                     /\ \E r \in db'.cvss_cache :
                           /\ r.cve_id = cve_id
                           /\ r.last_updated = isoformat(now)
                     /\ RowsOf(db'.cve_detail, cve_id) =
                          {[cve_id |-> cve_id,
                            detail_json |-> PyStr(resp'.nvd[1]),
                            last_updated |-> isoformat(now)]}]_vars

\* a refresh has rewritten the expired rows of an identifier: its two cache
\* rows and its two detail rows carry the instant of the refresh, next to
\* the older rows of another identifier
C28_Witness ==
    /\ op.name = "update_db_row" /\ op.lookup
    /\ now > 0
    /\ \A t \in {db.epss_cache, db.cvss_cache, db.epss_detail, db.cve_detail} :
          /\ \E r \in t : r.cve_id = op.cve_id[1] /\ r.last_updated = isoformat(now)
          /\ \E r \in t : r.cve_id # op.cve_id[1] /\ r.last_updated # isoformat(now)

\* ------------------------------------------------------------------------
\* Vocabulary of C29
\* ------------------------------------------------------------------------
\* what a row shows in a new column for a score
Shown(score) == CsvText(OrNotFound(score))

\* the rows of cve_id written at the instant clk
WrittenAt(table, cve_id, clk) ==
    {r \in RowsOf(table, cve_id) : r.last_updated = isoformat(clk)}

\* ------------------------------------------------------------------------
\* C29: in one run of the pipeline (the clock stands still while it runs)
\* a metric of an identifier is fetched with success at most once, and the
\* rows after the fetch show what the fetching row showed.  In three parts,
\* for the rows whose lookup returns: (1) a fetch that yields a score leaves
\* a cache row of the identifier with that score and the instant of the
\* run, and the row shows that score; (2) while the run lasts, a cache row
\* written at the instant of the run stays as it is, whatever the later
\* rows do; (3) a row whose identifier has such a cache row makes no request
\* for that metric, and shows the score of the cache row.
\* ------------------------------------------------------------------------
C29_OneFetchPerIdentifierAndRun ==
    [][/\ (op'.name = "process_row" /\ op'.lookup /\ ret' # None) =>
            LET cve_id == op'.cve_id[1]
                shown == LastOutput(proc', outFile')
            IN /\ (/\ resp'.epss # None
                   /\ fetch_epss(cve_id, resp'.epss[1]).epss # None) =>
                     /\ \E r \in WrittenAt(db'.epss_cache, cve_id, now) :
                           /\ r.epss = fetch_epss(cve_id, resp'.epss[1]).epss
                           /\ shown[1] = Shown(r.epss)
                     /\ WrittenAt(db.epss_cache, cve_id, now) = {}
               /\ (/\ resp'.nvd # None
                   /\ fetch_cvss(cve_id, get_nvd_api_key(keyFile),
                                 resp'.nvd[1]).cvss # None) =>
                     /\ \E r \in WrittenAt(db'.cvss_cache, cve_id, now) :
                           /\ r.cvss = fetch_cvss(cve_id, get_nvd_api_key(keyFile),
                                                  resp'.nvd[1]).cvss
                           /\ shown[2] = Shown(r.cvss)
                     /\ WrittenAt(db.cvss_cache, cve_id, now) = {}
               /\ \A r \in WrittenAt(db.epss_cache, cve_id, now) :
                     /\ Gets(calls', EPSS_URL) = {}
                     /\ resp'.epss = None
                     /\ shown[1] = Shown(r.epss)
               /\ \A r \in WrittenAt(db.cvss_cache, cve_id, now) :
                     /\ Gets(calls', NVD_URL) = {}
                     /\ Sleeps(calls') = {}
                     /\ resp'.nvd = None
                     /\ shown[2] = Shown(r.cvss)
       /\ proc.pc = "loop" =>
            /\ now' = now
            /\ \A cve_id \in IdsOf(db.epss_cache) :
                  WrittenAt(db.epss_cache, cve_id, now) \subseteq db'.epss_cache
            /\ \A cve_id \in IdsOf(db.cvss_cache) :
                  WrittenAt(db.cvss_cache, cve_id, now) \subseteq db'.cvss_cache]_vars

\* a table has the same identifier in its two rows and the cache held
\* expired rows: the first row fetched both scores, the second row made no
\* request and shows the same two scores
C29_Witness ==
    /\ op.name = "process_row" /\ op.lookup
    /\ now = MaxTime
    /\ calls = <<>>
    /\ proc.processed = 2
    /\ Len(proc.batch_buffer) = 2
    /\ proc.batch_buffer[1].dict = proc.batch_buffer[2].dict
    /\ proc.batch_buffer[1].epss = <<"float", 5>>
    /\ proc.batch_buffer[2].epss = <<"float", 5>>
    /\ proc.batch_buffer[1].cvss = <<"float", 75>>
    /\ proc.batch_buffer[2].cvss = <<"float", 75>>
    /\ \A r \in db.epss_cache \cup db.cvss_cache :
          r.last_updated = isoformat(MaxTime)
    /\ db.epss_cache # {} /\ db.cvss_cache # {}

\* ------------------------------------------------------------------------
\* C25 as stated: the outcome run_processing shows is what the pipeline
\* did.  It shows "cancelled" only when process_and_update_csv returned at
\* a poll of cancel_check, before it had processed every row; it shows
\* "completed" exactly when process_and_update_csv returned its output
\* path, with every row processed and written to the output file.
\* ------------------------------------------------------------------------
C25_ReportMatchesPipeline ==
    [][op'.name = "report_outcome" =>
        LET finished == /\ proc.pc = "returned"
                        /\ proc.result = "output_file"
                        /\ proc.processed = proc.total_rows
                        /\ outFile # None
                        /\ Len(outFile[1].rows) = proc.total_rows
            stopped == /\ proc.pc = "returned"
                       /\ proc.result = "None"
                       /\ proc.processed < proc.total_rows
        IN /\ gui'.report = "cancelled" => stopped
           /\ gui'.report = "completed" <=> finished]_vars

\* ------------------------------------------------------------------------
\* C26 as stated: at no time are two executions of the engine under way:
\* the loop of update_db and the loop of process_and_update_csv are never
\* both between their first and their last step.
\* ------------------------------------------------------------------------
C26_SingleEngineExecution ==
    ~(/\ upd.pc = "loop" /\ upd.i <= Len(upd.rows)
      /\ proc.pc = "loop" /\ proc.i <= Len(proc.rows))

\* ------------------------------------------------------------------------
\* C27 as stated: a press of Cancel made after the Start of a run is
\* honoured by that run.  From the press on, cancel_flag stays True as long
\* as the run lasts, and the next poll of cancel_check by the run ends the
\* loop: no row is processed at a poll that follows the press.
\* ------------------------------------------------------------------------
C27_CancelNeverLost ==
    [][/\ (gui.pending /\ gui'.pending /\ gui.cancel_flag) => gui'.cancel_flag
       /\ (gui.pending /\ op'.name \in {"process_row", "process_cancel"}) =>
            op'.name = "process_cancel"]_vars

====
